---- MODULE Spec2Model ----
(***************************************************************************)
(* Model of the OmniArb V2 "Zone 6" profitability engine of                *)
(* omni_trifecta/execution/arbitrage_calculator.py.                        *)
(*                                                                         *)
(* The state holds one calculator of each class: `self` is the            *)
(* OmniArbV2Calculator (its thresholds and its two priority lists),        *)
(* `legacy_calculator` the MultiHopArbitrageCalculator and                 *)
(* `universal_calculator` the UniversalArbitrageCalculator.  Every public  *)
(* method is one action that draws its arguments from small sets, runs the *)
(* whole method and records the call in op/args and its outcome in         *)
(* ret/raised.                                                             *)
(*                                                                         *)
(* Python floats are modelled as exact rationals <<numerator, denominator>>*)
(* in lowest terms with a positive denominator, so that equality of two    *)
(* amounts is equality of the tuples.  A float division by zero raises     *)
(* ZeroDivisionError in Python; the model records that in `raised`.        *)
(***************************************************************************)
EXTENDS Integers, Sequences, FiniteSets, TLC

VARIABLES self, legacy_calculator, universal_calculator, op, args, ret, raised

vars == <<self, legacy_calculator, universal_calculator, op, args, ret, raised>>

calculators == <<self, legacy_calculator, universal_calculator>>

----------------------------------------------------------------------------
(* Exact rational arithmetic standing for the float operators + - * / <= < *)

Abs(x) == IF x < 0 THEN -x ELSE x

RECURSIVE Gcd(_, _)
Gcd(a, b) == IF b = 0 THEN a ELSE Gcd(b, a % b)

Rat(n, d) ==
    LET s == IF d < 0 THEN -1 ELSE 1
        g == Gcd(Abs(n), Abs(d))
    IN  <<(s * n) \div g, (s * d) \div g>>

Num(n) == <<n, 1>>

Zero == Num(0)

One == Num(1)

RNeg(a) == <<-a[1], a[2]>>

RAdd(a, b) ==
    IF a[1] = 0 THEN b
    ELSE IF b[1] = 0 THEN a
    ELSE
    LET g == Gcd(a[2], b[2])
    IN  Rat(a[1] * (b[2] \div g) + b[1] * (a[2] \div g), (a[2] \div g) * b[2])

RSub(a, b) == RAdd(a, RNeg(b))

RMul(a, b) ==
    IF a[1] = 0 \/ b[1] = 0 THEN Zero
    ELSE
    LET g1 == Gcd(Abs(a[1]), b[2])
        g2 == Gcd(Abs(b[1]), a[2])
    IN  Rat((a[1] \div g1) * (b[1] \div g2), (a[2] \div g2) * (b[2] \div g1))

(* a is in lowest terms, and so is its inverse *)
RInv(a) ==
    IF a[1] = 0 THEN Rat(a[2], a[1])
    ELSE IF a[1] < 0 THEN <<-a[2], -a[1]>>
    ELSE <<a[2], a[1]>>

RDiv(a, b) == RMul(a, RInv(b))

(* a <= b, compared by continued fractions so that no product is formed    *)
RECURSIVE RLe(_, _)
RLe(a, b) ==
    LET qa == a[1] \div a[2]
        qb == b[1] \div b[2]
        ra == a[1] % a[2]
        rb == b[1] % b[2]
    IN  IF qa # qb THEN qa < qb
        ELSE IF ra = 0 THEN TRUE
        ELSE IF rb = 0 THEN FALSE
        ELSE RLe(<<b[2], rb>>, <<a[2], ra>>)

RLt(a, b) == ~RLe(b, a)

RMin(a, b) == IF RLe(a, b) THEN a ELSE b

MinOf(S) == CHOOSE x \in S : \A y \in S : x <= y

----------------------------------------------------------------------------
(* Configuration records                                                   *)

None == "None"

FlashLoanSourceConfig(source, fee_rate, max_loan_usd, min_loan_usd, available) ==
    [source |-> source, fee_rate |-> fee_rate, max_loan_usd |-> max_loan_usd,
     min_loan_usd |-> min_loan_usd, available |-> available]

get_default_sources ==
    << FlashLoanSourceConfig("DYDX", Zero, Num(100000000), Num(10000), TRUE),
       FlashLoanSourceConfig("BALANCER", Zero, Num(50000000), Num(5000), TRUE),
       FlashLoanSourceConfig("UNISWAP", Rat(5, 10000), Num(25000000), Num(1000), TRUE),
       FlashLoanSourceConfig("AAVE", Rat(9, 10000), Num(500000000), Num(100), TRUE) >>

ChainConfig(chain, avg_gas_cost_usd, is_l2, recommended_min_trade_usd) ==
    [chain |-> chain, avg_gas_cost_usd |-> avg_gas_cost_usd, is_l2 |-> is_l2,
     recommended_min_trade_usd |-> recommended_min_trade_usd]

get_default_chains ==
    << ChainConfig("ARBITRUM", Rat(10, 100), TRUE, Num(1000)),
       ChainConfig("OPTIMISM", Rat(15, 100), TRUE, Num(1000)),
       ChainConfig("POLYGON", Rat(2, 100), TRUE, Num(500)),
       ChainConfig("BASE", Rat(5, 100), TRUE, Num(500)),
       ChainConfig("BSC", Rat(10, 100), FALSE, Num(1000)),
       ChainConfig("ETHEREUM_MAINNET", Num(50), FALSE, Num(1000000)) >>

TotalCostOfExecution(gas_cost, flash_loan_fee, bridge_fee, mev_bribe) ==
    [gas_cost |-> gas_cost, flash_loan_fee |-> flash_loan_fee,
     bridge_fee |-> bridge_fee, mev_bribe |-> mev_bribe]

(* total with the MEV bribe left out of the sum *)
total_without_mev(cost) ==
    RAdd(RAdd(cost.gas_cost, cost.flash_loan_fee), cost.bridge_fee)

total(cost) ==
    RAdd(RAdd(RAdd(cost.gas_cost, cost.flash_loan_fee), cost.bridge_fee), cost.mev_bribe)

----------------------------------------------------------------------------
(* LiquidityDepth (only tvl takes part in the computations)                *)

(* a linear price impact, trade_size / tvl, capped at the maximal slippage *)
calculate_linear_slippage(tvl, trade_size) ==
    IF RLe(tvl, Zero) THEN One
    ELSE RMin(One, RDiv(trade_size, tvl))

(* lines 1324-1342 *)
calculate_dynamic_slippage(tvl, trade_size) ==
    IF RLe(tvl, Zero) THEN One
    ELSE RDiv(trade_size, RAdd(tvl, trade_size))

(* the guard with a strict comparison *)
is_trade_size_safe_strict(tvl, trade_size, max_tvl_pct) ==
    IF RLe(tvl, Zero) THEN FALSE
    ELSE RLt(RDiv(trade_size, tvl), max_tvl_pct)

is_trade_size_safe(tvl, trade_size, max_tvl_pct) ==
    IF RLe(tvl, Zero) THEN FALSE
    ELSE RLe(RDiv(trade_size, tvl), max_tvl_pct)

get_optimal_trade_size(tvl, target_slippage) ==
    IF RLe(One, target_slippage) \/ RLe(target_slippage, Zero) THEN Zero
    ELSE RDiv(RMul(target_slippage, tvl), RSub(One, target_slippage))

----------------------------------------------------------------------------
(* TriangularArbitrageOpportunity: [price_a_to_b, price_b_to_c,            *)
(* price_a_to_c, total_fees_pct]                                           *)

arbitrage_ratio(opp) ==
    IF RLe(opp.price_a_to_c, Zero) THEN Zero
    ELSE RDiv(RMul(opp.price_a_to_b, opp.price_b_to_c), opp.price_a_to_c)

(* the profitability test with a non-strict comparison *)
is_profitable_at_boundary(opp) == RLe(RAdd(One, opp.total_fees_pct), arbitrage_ratio(opp))

is_profitable(opp) == RLt(RAdd(One, opp.total_fees_pct), arbitrage_ratio(opp))

----------------------------------------------------------------------------
(* OmniArbV2Calculator                                                     *)

OmniArbV2Calculator(min_profit_bps, gas_safety_multiplier, max_tvl_pct, target_slippage) ==
    [min_profit_bps |-> min_profit_bps,
     gas_safety_multiplier |-> gas_safety_multiplier,
     max_tvl_pct |-> max_tvl_pct,
     target_slippage |-> target_slippage,
     safety_margin |-> Rat(20, 100),
     flash_sources |-> get_default_sources,
     chain_configs |-> get_default_chains]

(* the selection with the lower end of the bracket not tested *)
select_flash_source_ignoring_min(s, volume) ==
    LET fits == {i \in 1..Len(s.flash_sources) :
                    /\ s.flash_sources[i].available
                    /\ RLe(volume, s.flash_sources[i].max_loan_usd)}
    IN  IF fits = {} THEN <<>> ELSE <<s.flash_sources[MinOf(fits)]>>

(* An Optional[FlashLoanSourceConfig] is a sequence: <<>> for None, <<c>>  *)
(* for the configuration c.  The loop returns the first match.             *)
select_best_flash_source(s, volume) ==
    LET fits == {i \in 1..Len(s.flash_sources) :
                    /\ s.flash_sources[i].available
                    /\ RLe(s.flash_sources[i].min_loan_usd, volume)
                    /\ RLe(volume, s.flash_sources[i].max_loan_usd)}
    IN  IF fits = {} THEN <<>> ELSE <<s.flash_sources[MinOf(fits)]>>

(* the selection accepting a chain whose gas equals the current estimate *)
select_chain_gas_not_above(s, volume, current_gas) ==
    LET hits == {i \in 1..Len(s.chain_configs) :
                    /\ RLe(s.chain_configs[i].recommended_min_trade_usd, volume)
                    /\ s.chain_configs[i].is_l2
                    /\ RLe(s.chain_configs[i].avg_gas_cost_usd, current_gas)}
    IN  IF hits # {} THEN s.chain_configs[MinOf(hits)].chain
        ELSE IF RLe(Num(1000000), volume) THEN "ETHEREUM_MAINNET"
        ELSE "ARBITRUM"

select_best_chain(s, volume, current_gas) ==
    LET hits == {i \in 1..Len(s.chain_configs) :
                    /\ RLe(s.chain_configs[i].recommended_min_trade_usd, volume)
                    /\ s.chain_configs[i].is_l2
                    /\ RLt(s.chain_configs[i].avg_gas_cost_usd, current_gas)}
    IN  IF hits # {} THEN s.chain_configs[MinOf(hits)].chain
        ELSE IF RLe(Num(1000000), volume) THEN "ETHEREUM_MAINNET"
        ELSE "ARBITRUM"

create_abort_result(reason, price_a, price_b, volume, cost) ==
    [gross_profit |-> Zero,
     net_profit |-> Zero,
     profit_bps |-> Zero,
     volume |-> volume,
     price_a |-> price_a,
     price_b |-> price_b,
     price_spread_pct |-> IF RLt(Zero, price_b)
                          THEN RMul(RDiv(RSub(price_a, price_b), price_b), Num(100))
                          ELSE Zero,
     dynamic_slippage |-> Zero,
     slippage_cost |-> Zero,
     cost_of_execution |-> cost,
     is_profitable |-> FALSE,
     passed_gas_check |-> FALSE,
     passed_slippage_guard |-> FALSE,
     recommended_flash_source |-> None,
     recommended_chain |-> None,
     abort_reason |-> reason]

(* the validation with the test of price_b left out *)
invalid_input_without_price_b(price_a, price_b, volume) ==
    RLe(price_a, Zero) \/ RLe(volume, Zero)

(* line 1546: the input validation of calculate_zone6_profit               *)
invalid_input(price_a, price_b, volume) ==
    RLe(price_a, Zero) \/ RLe(price_b, Zero) \/ RLe(volume, Zero)

(* the gross profit with the tokens sold at the price they were bought at *)
zone6_gross_profit_at_buy_price(price_a, price_b, volume, dynamic_slippage) ==
    LET slippage_multiplier == RSub(One, dynamic_slippage)
    IN  IF RLt(Zero, price_b)
        THEN RSub(RMul(RMul(RDiv(volume, price_b), price_b), slippage_multiplier), volume)
        ELSE Zero

(* lines 1564-1583: the value gross_profit holds after the second          *)
(* assignment (the first, normalised by price_a, is overwritten)           *)
zone6_gross_profit(price_a, price_b, volume, dynamic_slippage) ==
    LET slippage_multiplier == RSub(One, dynamic_slippage)
    IN  IF RLt(Zero, price_b)
        THEN RSub(RMul(RMul(RDiv(volume, price_b), price_a), slippage_multiplier), volume)
        ELSE Zero

(* the gas check with a strict comparison *)
zone6_gas_check_strict(s, gross_profit, cost) ==
    RLt(RMul(cost.gas_cost, s.gas_safety_multiplier), gross_profit)

(* lines 1594-1597 *)
zone6_gas_check(s, gross_profit, cost) ==
    RLe(RMul(cost.gas_cost, s.gas_safety_multiplier), gross_profit)

(* the decision with the minimum margin left out *)
zone6_is_profitable_without_margin(s, net_profit, passed_gas_check, passed_slippage_guard, profit_bps) ==
    /\ RLt(Zero, net_profit)
    /\ passed_gas_check
    /\ passed_slippage_guard

(* lines 1602-1608 *)
zone6_is_profitable(s, net_profit, passed_gas_check, passed_slippage_guard, profit_bps) ==
    /\ RLt(Zero, net_profit)
    /\ passed_gas_check
    /\ passed_slippage_guard
    /\ RLe(s.min_profit_bps, profit_bps)

(* the reason with the slippage guard tested before the gas check *)
zone6_abort_reason_slippage_first(profitable, passed_gas_check, passed_slippage_guard, net_profit) ==
    IF profitable THEN None
    ELSE IF ~passed_slippage_guard THEN "Slippage guard failed"
    ELSE IF ~passed_gas_check THEN "Gas check failed"
    ELSE IF RLe(net_profit, Zero) THEN "Net profit negative"
    ELSE "Profit too low"

(* lines 1615-1625: the formatted message is modelled by its fixed prefix  *)
zone6_abort_reason(profitable, passed_gas_check, passed_slippage_guard, net_profit) ==
    IF profitable THEN None
    ELSE IF ~passed_gas_check THEN "Gas check failed"
    ELSE IF ~passed_slippage_guard THEN "Slippage guard failed"
    ELSE IF RLe(net_profit, Zero) THEN "Net profit negative"
    ELSE "Profit too low"

Returns(v) == [raised |-> FALSE, value |-> v]

Raises(e) == [raised |-> TRUE, value |-> e]

calculate_zone6_profit(s, price_a, price_b, volume, tvl, cost) ==
    IF invalid_input(price_a, price_b, volume)
    THEN Returns(create_abort_result("Invalid input", price_a, price_b, volume, cost))
    ELSE IF \/ price_b = Zero
            \/ (RLt(Zero, tvl) /\ RAdd(tvl, volume) = Zero)
    THEN Raises("ZeroDivisionError")
    ELSE
    LET price_spread_pct == RMul(RDiv(RSub(price_a, price_b), price_b), Num(100))
        dynamic_slippage == calculate_dynamic_slippage(tvl, volume)
        passed_slippage_guard == is_trade_size_safe(tvl, volume, s.max_tvl_pct)
        gross_profit == zone6_gross_profit(price_a, price_b, volume, dynamic_slippage)
        slippage_cost == RMul(volume, dynamic_slippage)
        total_execution_cost == total(cost)
        net_profit == RSub(gross_profit, total_execution_cost)
        passed_gas_check == zone6_gas_check(s, gross_profit, cost)
        profit_bps == IF RLt(Zero, volume)
                      THEN RMul(RDiv(net_profit, volume), Num(10000))
                      ELSE Zero
        profitable == zone6_is_profitable(s, net_profit, passed_gas_check,
                                          passed_slippage_guard, profit_bps)
        recommended_flash_config == select_best_flash_source(s, volume)
    IN  Returns(
        [gross_profit |-> gross_profit,
         net_profit |-> net_profit,
         profit_bps |-> profit_bps,
         volume |-> volume,
         price_a |-> price_a,
         price_b |-> price_b,
         price_spread_pct |-> price_spread_pct,
         dynamic_slippage |-> dynamic_slippage,
         slippage_cost |-> slippage_cost,
         cost_of_execution |-> cost,
         is_profitable |-> profitable,
         passed_gas_check |-> passed_gas_check,
         passed_slippage_guard |-> passed_slippage_guard,
         recommended_flash_source |->
             IF recommended_flash_config = <<>> THEN None
             ELSE recommended_flash_config[1].source,
         recommended_chain |-> select_best_chain(s, volume, cost.gas_cost),
         abort_reason |-> zone6_abort_reason(profitable, passed_gas_check,
                                             passed_slippage_guard, net_profit)])

(* the evaluation whose result quotes the first leg's price as price_a    *)
(* in place of the effective sell price it was computed from              *)
calculate_triangular_quoting_first_leg(s, opp, volume, tvl, gas_cost_usd) ==
    IF ~is_profitable(opp)
    THEN Returns(create_abort_result("Triangular arbitrage not profitable",
                    opp.price_a_to_c, One, volume,
                    TotalCostOfExecution(gas_cost_usd, Zero, Zero, Zero)))
    ELSE
    LET flash_config == select_best_flash_source(s, volume)
        flash_fee_rate == IF flash_config = <<>> THEN Rat(9, 10000)
                          ELSE flash_config[1].fee_rate
        cost == TotalCostOfExecution(gas_cost_usd, RMul(volume, flash_fee_rate), Zero, Zero)
        call == calculate_zone6_profit(s, arbitrage_ratio(opp), One, volume, tvl, cost)
    IN  IF call.raised THEN call
        ELSE Returns([call.value EXCEPT !.price_a = opp.price_a_to_c])

(* the evaluation charging the 0.09% fall-back rate whatever source fits    *)
calculate_triangular_at_fallback_rate(s, opp, volume, tvl, gas_cost_usd) ==
    IF ~is_profitable(opp)
    THEN Returns(create_abort_result("Triangular arbitrage not profitable",
                    opp.price_a_to_c, One, volume,
                    TotalCostOfExecution(gas_cost_usd, Zero, Zero, Zero)))
    ELSE calculate_zone6_profit(s, arbitrage_ratio(opp), One, volume, tvl,
             TotalCostOfExecution(gas_cost_usd, RMul(volume, Rat(9, 10000)),
                                  Zero, Zero))

calculate_triangular_arbitrage(s, opp, volume, tvl, gas_cost_usd) ==
    IF ~is_profitable(opp)
    THEN Returns(create_abort_result("Triangular arbitrage not profitable",
                    opp.price_a_to_c, One, volume,
                    TotalCostOfExecution(gas_cost_usd, Zero, Zero, Zero)))
    ELSE
    LET effective_sell_price == arbitrage_ratio(opp)
        effective_buy_price == One
        flash_config == select_best_flash_source(s, volume)
        flash_fee_rate == IF flash_config = <<>> THEN Rat(9, 10000)
                          ELSE flash_config[1].fee_rate
        cost == TotalCostOfExecution(gas_cost_usd, RMul(volume, flash_fee_rate), Zero, Zero)
    IN  calculate_zone6_profit(s, effective_sell_price, effective_buy_price,
                               volume, tvl, cost)

(* line 1746: the candidate fractions of max_volume                        *)
SweepPcts ==
    << Rat(1, 100), Rat(2, 100), Rat(5, 100), Rat(10, 100), Rat(15, 100),
       Rat(20, 100), Rat(30, 100), Rat(50, 100), Rat(75, 100), One >>

(* float('-inf') *)
NegInf == <<-1, 0>>

(* the comparison of the sweep made non-strict *)
not_worse_than_best(net_profit, best_profit) ==
    best_profit = NegInf \/ RLe(best_profit, net_profit)

(* line 1760: result.net_profit > best_profit *)
better_than_best(net_profit, best_profit) ==
    best_profit = NegInf \/ RLt(best_profit, net_profit)

(* the size for the target slippage, without the cap at max_tvl_pct of TVL *)
sweep_max_volume_uncapped(s, tvl) == get_optimal_trade_size(tvl, s.target_slippage)

(* lines 1735-1738 *)
sweep_max_volume(s, tvl) ==
    RMin(get_optimal_trade_size(tvl, s.target_slippage), RMul(tvl, s.max_tvl_pct))

(* lines 1746-1763: the loop, from candidate i on; best_result is <<>> for *)
(* None and <<r>> for a result r; a raise inside the loop ends it          *)
RECURSIVE sweep(_, _, _, _)

(* lines 1760-1763: the candidate's result against the best so far         *)
sweep_compare(s, in, i, best, test_volume, call) ==
    IF call.raised THEN [best EXCEPT !.raised = TRUE]
    ELSE IF better_than_best(call.value.net_profit, best.best_profit)
    THEN sweep(s, in, i + 1,
               [best_result |-> <<call.value>>,
                best_volume |-> test_volume,
                best_profit |-> call.value.net_profit,
                raised |-> FALSE])
    ELSE sweep(s, in, i + 1, best)

(* lines 1748-1758: the evaluation of the candidate volume                 *)
sweep_evaluate(s, in, i, best, test_volume) ==
    IF RLe(test_volume, Zero) THEN sweep(s, in, i + 1, best)
    ELSE sweep_compare(s, in, i, best, test_volume,
             calculate_zone6_profit(s, in.price_a, in.price_b, test_volume, in.tvl,
                 TotalCostOfExecution(in.gas_cost_usd,
                     RMul(test_volume, in.flash_fee_rate), Zero, Zero)))

sweep(s, in, i, best) ==
    IF i > Len(SweepPcts) \/ best.raised THEN best
    ELSE sweep_evaluate(s, in, i, best,
                        RMul(sweep_max_volume(s, in.tvl), SweepPcts[i]))

(* lines 1765-1772: the best candidate, or the abort result when there is  *)
(* none                                                                    *)
best_or_abort(price_a, price_b, gas_cost_usd, best) ==
    IF best.raised THEN Raises("ZeroDivisionError")
    ELSE IF best.best_result = <<>>
    THEN Returns(<<best.best_volume,
                   create_abort_result("No profitable trade size found",
                       price_a, price_b, Zero,
                       TotalCostOfExecution(gas_cost_usd, Zero, Zero, Zero))>>)
    ELSE Returns(<<best.best_volume, best.best_result[1]>>)

optimize_trade_size(s, price_a, price_b, tvl, gas_cost_usd, flash_fee_rate) ==
    best_or_abort(price_a, price_b, gas_cost_usd,
        sweep(s,
              [price_a |-> price_a, price_b |-> price_b, tvl |-> tvl,
               gas_cost_usd |-> gas_cost_usd, flash_fee_rate |-> flash_fee_rate],
              1,
              [best_result |-> <<>>, best_volume |-> Zero,
               best_profit |-> NegInf, raised |-> FALSE]))

----------------------------------------------------------------------------
(* MultiHopArbitrageCalculator                                             *)

RMax(a, b) == IF RLe(a, b) THEN b ELSE a

(* Exchange: name, withdrawal_fee and liquidity_depth take no part in the  *)
(* computations                                                            *)
Exchange(trading_fee, gas_cost, slippage_factor) ==
    [trading_fee |-> trading_fee, gas_cost |-> gas_cost,
     slippage_factor |-> slippage_factor]

(* TradingPair: base, quote and spread take no part in the computations    *)
TradingPair(exchange, bid_price, ask_price, liquidity) ==
    [exchange |-> exchange, bid_price |-> bid_price, ask_price |-> ask_price,
     liquidity |-> liquidity]

MultiHopArbitrageCalculator(min_profit_bps, max_slippage_bps, safety_margin) ==
    [min_profit_bps |-> min_profit_bps,
     max_slippage_bps |-> max_slippage_bps,
     safety_margin |-> safety_margin]

ArbitrageRoute(route_type, expected_profit, expected_profit_bps, risk_score, execution_time_ms, total_fees, total_gas, slippage_estimate, min_capital_required, max_capital_recommended) ==
    [route_type |-> route_type,
     expected_profit |-> expected_profit,
     expected_profit_bps |-> expected_profit_bps,
     risk_score |-> risk_score,
     execution_time_ms |-> execution_time_ms,
     total_fees |-> total_fees,
     total_gas |-> total_gas,
     slippage_estimate |-> slippage_estimate,
     min_capital_required |-> min_capital_required,
     max_capital_recommended |-> max_capital_recommended]

(* lines 457-466 *)
calculate_slippage(trade_size, exchange) ==
    LET size_factor == RDiv(trade_size, Num(100000))
        base_slippage == RMul(exchange.slippage_factor, size_factor)
        scaled == IF RLt(Num(5), size_factor)
                  THEN RMul(base_slippage,
                            RAdd(One, RMul(RSub(size_factor, Num(5)), Rat(1, 10))))
                  ELSE base_slippage
    IN  RMin(scaled, Rat(5, 100))

(* line 488 *)
profit_risk(profit_bps) ==
    RMul(RDiv(RMax(Zero, RSub(Num(50), profit_bps)), Num(50)), Num(30))

(* line 491; the division by max_slippage_bps is guarded by the callers'   *)
(* raise conditions                                                        *)
slippage_risk(s, slippage) ==
    RMul(RMul(RDiv(slippage, s.max_slippage_bps), Num(10000)), Num(25))

(* line 494 *)
liquidity_risk(liquidity) ==
    RMul(RDiv(RMax(Zero, RSub(Num(1000000), liquidity)), Num(1000000)), Num(25))

(* line 497 *)
complexity_risk(execution_complexity) == Num((execution_complexity - 2) * 10)

(* lines 487-501 *)
calculate_risk_score(s, profit_bps, slippage, liquidity, execution_complexity) ==
    LET total_risk == RAdd(RAdd(RAdd(profit_risk(profit_bps),
                                     slippage_risk(s, slippage)),
                                liquidity_risk(liquidity)),
                           complexity_risk(execution_complexity))
    IN  RMin(Num(100), RMax(Zero, total_risk))

(* lines 168, 259, 356 *)
gross_profit_bps(gross_profit, capital) ==
    RMul(RDiv(gross_profit, capital), Num(10000))

(* the profit in basis points without the safety margin *)
net_profit_bps_undiscounted(s, gross_bps) == gross_bps

(* lines 183, 276, 368 *)
net_profit_bps(s, gross_bps) == RMul(gross_bps, RSub(One, s.safety_margin))

(* the threshold test rejecting a route that just meets the minimum *)
below_or_at_min_profit(s, net_bps) == RLe(net_bps, s.min_profit_bps)

(* lines 186, 278, 370 *)
below_min_profit(s, net_bps) == RLt(net_bps, s.min_profit_bps)

(* lines 166-208, 257-300, 351-388: the metrics of the executed hops and   *)
(* the route, or None when the profit is below the minimum.  An            *)
(* Optional[ArbitrageRoute] is a sequence: <<>> for None and <<r>> for the *)
(* route r                                                                 *)
route_or_none(s, route_type, execution_complexity, capital, final_amount, total_fees, total_gas, total_slippage, min_liquidity, execution_time_ms, min_capital_required, max_capital) ==
    LET gross_profit == RSub(final_amount, capital)
        gross_bps == gross_profit_bps(gross_profit, capital)
        risk_score == calculate_risk_score(s, gross_bps, total_slippage,
                                           min_liquidity, execution_complexity)
        net_bps == net_profit_bps(s, gross_bps)
    IN  IF below_min_profit(s, net_bps) THEN Returns(<<>>)
        ELSE Returns(<<ArbitrageRoute(route_type,
                        RMul(gross_profit, RSub(One, s.safety_margin)),
                        net_bps, risk_score, execution_time_ms, total_fees,
                        total_gas, total_slippage, min_capital_required,
                        max_capital)>>)

(* lines 144-208 *)
calculate_2hop_arbitrage(s, pair1, pair2, capital) ==
    IF pair1.ask_price = Zero \/ capital = Zero \/ s.max_slippage_bps = Zero
    THEN Raises("ZeroDivisionError")
    ELSE
    LET amount_after_fee1 == RMul(capital, RSub(One, pair1.exchange.trading_fee))
        trade_size_factor1 == RDiv(capital, Num(100000))
        slippage1 == RMul(pair1.exchange.slippage_factor, trade_size_factor1)
        btc_bought == RMul(RDiv(amount_after_fee1, pair1.ask_price),
                           RSub(One, slippage1))
        usdt_received == RMul(btc_bought, pair2.bid_price)
        trade_size_factor2 == RDiv(usdt_received, Num(100000))
        slippage2 == RMul(pair2.exchange.slippage_factor, trade_size_factor2)
        amount_after_fee2 ==
            RMul(RMul(usdt_received, RSub(One, pair2.exchange.trading_fee)),
                 RSub(One, slippage2))
        total_gas == RAdd(pair1.exchange.gas_cost, pair2.exchange.gas_cost)
        final_amount == RSub(amount_after_fee2, total_gas)
        total_fees == RAdd(RMul(capital, pair1.exchange.trading_fee),
                           RMul(usdt_received, pair2.exchange.trading_fee))
        total_slippage == RAdd(slippage1, slippage2)
        max_capital == RMin(RMul(pair1.liquidity, Rat(1, 10)),
                            RMul(pair2.liquidity, Rat(1, 10)))
    IN  route_or_none(s, "TWO_HOP", 2, capital, final_amount, total_fees,
                      total_gas, total_slippage,
                      RMin(pair1.liquidity, pair2.liquidity),
                      Num(100), Num(1000), max_capital)

(* lines 232-300 *)
calculate_3hop_arbitrage(s, pair1, pair2, pair3, capital) ==
    IF \/ pair1.ask_price = Zero \/ pair2.ask_price = Zero
       \/ capital = Zero \/ s.max_slippage_bps = Zero
    THEN Raises("ZeroDivisionError")
    ELSE
    LET slippage1 == calculate_slippage(capital, pair1.exchange)
        amount1 == RMul(RMul(capital, RSub(One, pair1.exchange.trading_fee)),
                        RSub(One, slippage1))
        btc_amount == RDiv(amount1, pair1.ask_price)
        btc_value == RMul(btc_amount, pair2.ask_price)
        slippage2 == calculate_slippage(btc_value, pair2.exchange)
        amount2 == RMul(RMul(btc_value, RSub(One, pair2.exchange.trading_fee)),
                        RSub(One, slippage2))
        eth_amount == RDiv(amount2, pair2.ask_price)
        eth_value == RMul(eth_amount, pair3.bid_price)
        slippage3 == calculate_slippage(eth_value, pair3.exchange)
        amount3 == RMul(RMul(eth_value, RSub(One, pair3.exchange.trading_fee)),
                        RSub(One, slippage3))
        total_gas == RAdd(RAdd(pair1.exchange.gas_cost, pair2.exchange.gas_cost),
                          pair3.exchange.gas_cost)
        final_amount == RSub(amount3, total_gas)
        total_fees == RAdd(RAdd(RMul(capital, pair1.exchange.trading_fee),
                                RMul(btc_value, pair2.exchange.trading_fee)),
                           RMul(eth_value, pair3.exchange.trading_fee))
        total_slippage == RAdd(RAdd(slippage1, slippage2), slippage3)
        max_capital == RMin(RMin(RMul(pair1.liquidity, Rat(1, 10)),
                                 RMul(pair2.liquidity, Rat(1, 10))),
                            RMul(pair3.liquidity, Rat(1, 10)))
    IN  route_or_none(s, "THREE_HOP", 3, capital, final_amount, total_fees,
                      total_gas, total_slippage,
                      RMin(RMin(pair1.liquidity, pair2.liquidity), pair3.liquidity),
                      Num(150), Num(2000), max_capital)

(* lines 331-349: the loop over the four hops, from hop i on.  The amounts *)
(* are Decimals; a Decimal division by zero raises DivisionByZero, and     *)
(* InvalidOperation when the dividend is zero too.  error is None while no *)
(* hop has raised.                                                         *)
RECURSIVE execute_hops(_, _, _)
execute_hops(pairs, i, st) ==
    IF i > Len(pairs) \/ st.error # None THEN st
    ELSE
    LET pair == pairs[i]
        fee == RMul(st.current_amount, pair.exchange.trading_fee)
        after_fee == RSub(st.current_amount, fee)
        slippage == calculate_slippage(after_fee, pair.exchange)
        after_slippage == RMul(after_fee, RSub(One, slippage))
        buy == (i - 1) % 2 = 0
    IN  IF buy /\ pair.ask_price = Zero
        THEN [st EXCEPT !.error = IF after_slippage = Zero THEN "InvalidOperation"
                                  ELSE "DivisionByZero"]
        ELSE execute_hops(pairs, i + 1,
                [current_amount |-> IF buy THEN RDiv(after_slippage, pair.ask_price)
                                    ELSE RMul(after_slippage, pair.bid_price),
                 total_fees |-> RAdd(st.total_fees, fee),
                 total_slippage |-> RAdd(st.total_slippage, slippage),
                 total_gas |-> RAdd(st.total_gas, pair.exchange.gas_cost),
                 error |-> None])

(* lines 351-388: the route of the executed hops st                        *)
four_hop_route(s, min_liquidity, capital, st) ==
    IF st.error # None THEN Raises(st.error)
    ELSE IF capital = Zero \/ s.max_slippage_bps = Zero
    THEN Raises("ZeroDivisionError")
    ELSE route_or_none(s, "FOUR_HOP", 4, capital,
                       RSub(st.current_amount, st.total_gas), st.total_fees,
                       st.total_gas, st.total_slippage, min_liquidity,
                       Num(200), Num(5000), RMul(min_liquidity, Rat(5, 100)))

(* lines 323-388 *)
calculate_4hop_arbitrage(s, pair1, pair2, pair3, pair4, capital) ==
    four_hop_route(s,
        RMin(RMin(pair1.liquidity, pair2.liquidity),
             RMin(pair3.liquidity, pair4.liquidity)),
        capital,
        execute_hops(<<pair1, pair2, pair3, pair4>>, 1,
            [current_amount |-> capital, total_fees |-> Zero,
             total_slippage |-> Zero, total_gas |-> Zero, error |-> None]))

(* the fraction without its lower clamp *)
calculate_kelly_unfloored(win_prob, win_amount, loss_amount) ==
    IF RLe(loss_amount, Zero) THEN Zero
    ELSE
    LET b == RDiv(win_amount, loss_amount)
        p == win_prob
        q == RSub(One, win_prob)
        kelly == IF RLt(Zero, b) THEN RDiv(RSub(RMul(p, b), q), b) ELSE Zero
    IN  RMin(Rat(25, 100), RMul(kelly, Rat(25, 100)))

(* lines 545-555 *)
calculate_kelly_for_arb(win_prob, win_amount, loss_amount) ==
    IF RLe(loss_amount, Zero) THEN Zero
    ELSE
    LET b == RDiv(win_amount, loss_amount)
        p == win_prob
        q == RSub(One, win_prob)
        kelly == IF RLt(Zero, b) THEN RDiv(RSub(RMul(p, b), q), b) ELSE Zero
    IN  RMax(Zero, RMin(Rat(25, 100), RMul(kelly, Rat(25, 100))))

----------------------------------------------------------------------------
(* UniversalArbitrageCalculator                                            *)

FlashLoanParams(tvl, fee_rate, c_min, c_max) ==
    [tvl |-> tvl, fee_rate |-> fee_rate, c_min |-> c_min, c_max |-> c_max]

(* the lower limit taken as the whole pool, c_min left out *)
v_min_whole_pool(flash_params) == flash_params.tvl

v_min(flash_params) == RMul(flash_params.c_min, flash_params.tvl)

v_max(flash_params) == RMul(flash_params.c_max, flash_params.tvl)

(* gas_price_gwei and block_time_ms take no part in the computations; the  *)
(* constructor converts max_slippage_pct from a percentage to a fraction   *)
UniversalArbitrageCalculator(min_profit_bps, max_slippage_pct, safety_margin) ==
    [min_profit_bps |-> min_profit_bps,
     max_slippage_pct |-> RDiv(max_slippage_pct, Num(100)),
     safety_margin |-> safety_margin]

(* lines 786-804 *)
calculate_profit(amount_borrowed, price_sell, slippage_sell, price_buy, slippage_buy, flash_fee_rate) ==
    LET eff_sell == RMul(price_sell, RSub(One, slippage_sell))
        eff_buy == RMul(price_buy, RAdd(One, slippage_buy))
    IN  IF RLe(eff_buy, Zero) THEN Zero
        ELSE
        LET tokens_bought == RDiv(amount_borrowed, eff_buy)
            usd_received == RMul(tokens_bought, eff_sell)
            loan_cost == RMul(amount_borrowed, flash_fee_rate)
        IN  RSub(RSub(usd_received, amount_borrowed), loan_cost)

(* the test of the spread with a strict comparison *)
no_spread_strict(price_sell, price_buy) == RLt(RSub(price_sell, price_buy), Zero)

(* lines 843-845 *)
no_spread(price_sell, price_buy) == RLe(RSub(price_sell, price_buy), Zero)

(* line 854 and 855: total_slippage_factor <= 1e-12, compared after both   *)
(* sides are scaled by 1e6                                                 *)
negligible_slippage(total_slippage_factor) ==
    RLe(RMul(total_slippage_factor, Num(1000000)), Rat(1, 1000000))

(* the optimum handed back without the clamp to the pool's limits *)
calculate_unclamped_volume(flash_params, price_sell, price_buy, base_slippage_sell, base_slippage_buy, slippage_impact_factor) ==
    IF no_spread(price_sell, price_buy)
    THEN [volume |-> Zero, divisions |-> 0]
    ELSE
    LET spread == RSub(price_sell, price_buy)
        total_slippage_factor == RMul(slippage_impact_factor, RAdd(price_sell, price_buy))
    IN  IF negligible_slippage(total_slippage_factor)
        THEN [volume |-> v_max(flash_params), divisions |-> 0]
        ELSE [volume |-> RDiv(RSub(spread, flash_params.fee_rate),
                              RMul(Num(2), total_slippage_factor)),
              divisions |-> 1]

(* lines 842-863; divisions counts the divisions the call performed *)
calculate_optimal_volume(flash_params, price_sell, price_buy, base_slippage_sell, base_slippage_buy, slippage_impact_factor) ==
    IF no_spread(price_sell, price_buy)
    THEN [volume |-> Zero, divisions |-> 0]
    ELSE
    LET spread == RSub(price_sell, price_buy)
        total_slippage_factor == RMul(slippage_impact_factor, RAdd(price_sell, price_buy))
    IN  IF negligible_slippage(total_slippage_factor)
        THEN [volume |-> v_max(flash_params), divisions |-> 0]
        ELSE
        LET v_optimal == RDiv(RSub(spread, flash_params.fee_rate),
                              RMul(Num(2), total_slippage_factor))
        IN  [volume |-> RMax(v_min(flash_params), RMin(v_max(flash_params), v_optimal)),
             divisions |-> 1]

(* lines 895-908 *)
universal_dynamic_slippage(s, volume, base_slippage, liquidity, volatility) ==
    LET volume_impact ==
            IF RLt(Zero, liquidity)
            THEN LET volume_ratio == RDiv(volume, liquidity)
                 IN  RMul(volume_ratio, RAdd(One, volume_ratio))
            ELSE Rat(1, 10)
        volatility_impact == RMul(volatility, Rat(1, 2))
        total_slippage == RAdd(RAdd(base_slippage, volume_impact), volatility_impact)
    IN  RMin(total_slippage, s.max_slippage_pct)

(* line 813: the default of slippage_impact_factor, which calculate_arbitrage *)
(* leaves unset                                                            *)
default_slippage_impact_factor == Rat(1, 100000)

(* lines 1000-1001 *)
adjusted_profit(s, gas_adjusted_profit, execution_probability, time_decay_factor) ==
    RMul(RMul(RMul(gas_adjusted_profit, RSub(One, s.safety_margin)),
              execution_probability), time_decay_factor)

(* the decision with the minimum margin left out *)
universal_is_profitable_without_margin(s, adjusted, profit_bps) ==
    RLt(Zero, adjusted)

(* line 1014 *)
universal_is_profitable(s, adjusted, profit_bps) ==
    RLt(Zero, adjusted) /\ RLe(s.min_profit_bps, profit_bps)

(* lines 988-991 *)
universal_profit_bps(net_profit, optimal_volume) ==
    IF RLt(Zero, optimal_volume)
    THEN RMul(RDiv(net_profit, optimal_volume), Num(10000))
    ELSE Zero

(* lines 941-1024 *)
calculate_arbitrage(s, price_sell, price_buy, flash_params, liquidity_sell, liquidity_buy, base_slippage_sell, base_slippage_buy, volatility, gas_cost_usd, execution_probability) ==
    IF price_buy = Zero THEN Raises("ZeroDivisionError")
    ELSE
    LET optimal_volume ==
            calculate_optimal_volume(flash_params, price_sell, price_buy,
                base_slippage_sell, base_slippage_buy,
                default_slippage_impact_factor).volume
        slippage_sell == universal_dynamic_slippage(s, optimal_volume,
                             base_slippage_sell, liquidity_sell, volatility)
        slippage_buy == universal_dynamic_slippage(s, optimal_volume,
                            base_slippage_buy, liquidity_buy, volatility)
        effective_sell == RMul(price_sell, RSub(One, slippage_sell))
        effective_buy == RMul(price_buy, RAdd(One, slippage_buy))
        net_profit == calculate_profit(optimal_volume, price_sell, slippage_sell,
                                       price_buy, slippage_buy, flash_params.fee_rate)
        gross_profit ==
            IF RLt(Zero, effective_buy)
            THEN RSub(RMul(RDiv(optimal_volume, effective_buy), effective_sell),
                      optimal_volume)
            ELSE Zero
        flash_loan_cost == RMul(optimal_volume, flash_params.fee_rate)
        gas_adjusted_profit == RSub(net_profit, gas_cost_usd)
        price_spread_bps == RMul(RDiv(RSub(price_sell, price_buy), price_buy), Num(10000))
        profit_bps == universal_profit_bps(net_profit, optimal_volume)
        min_liquidity == RMin(liquidity_sell, liquidity_buy)
        liquidity_depth_ratio == IF RLt(Zero, flash_params.tvl)
                                 THEN RDiv(min_liquidity, flash_params.tvl)
                                 ELSE Zero
        time_decay_factor == RMax(Rat(1, 2), RSub(One, RMul(volatility, Rat(1, 2))))
        adjusted == adjusted_profit(s, gas_adjusted_profit, execution_probability,
                                    time_decay_factor)
    IN  Returns(
        [net_profit |-> net_profit,
         gross_profit |-> gross_profit,
         loan_volume |-> optimal_volume,
         effective_sell_price |-> effective_sell,
         effective_buy_price |-> effective_buy,
         slippage_sell |-> slippage_sell,
         slippage_buy |-> slippage_buy,
         flash_loan_cost |-> flash_loan_cost,
         flash_fee_rate |-> flash_params.fee_rate,
         profit_bps |-> profit_bps,
         is_profitable |-> universal_is_profitable(s, adjusted, profit_bps),
         optimal_volume |-> optimal_volume,
         max_loan_allowed |-> v_max(flash_params),
         min_loan_required |-> v_min(flash_params),
         price_spread_bps |-> price_spread_bps,
         market_volatility |-> volatility,
         liquidity_depth_ratio |-> liquidity_depth_ratio,
         execution_probability |-> execution_probability,
         time_decay_factor |-> time_decay_factor,
         gas_adjusted_profit |-> gas_adjusted_profit])

----------------------------------------------------------------------------
(* Inputs                                                                  *)

MaxPriceTick == 1

MaxVolumeStep == 1

MaxGasStep == 1

Prices == {Zero, Num(110), Num(150)} \cup {Num(100 + k) : k \in 0..MaxPriceTick}

(* 100.5 against 100 is a spread of 50 basis points, between the minimum  *)
(* margin and twice the minimum margin                                     *)
SweepPrices == Prices \cup {Num(90), Rat(201, 2)}

BuyPrices == {Zero, Num(100), Num(110)}

Volumes == {Zero, Num(1000)} \cup {Num(100 + 10 * k) : k \in 0..MaxVolumeStep}

Tvls == {Num(-1000), Zero, Num(1000), Num(4900), Num(20000)}

SweepBuyPrices == {Zero, Num(100)}

SweepTvls == {Zero, Num(1000), Num(20000)}

OptimizeTvls == SweepTvls \cup {Num(-1000)}

GasCosts == {Zero} \cup {Rat(52 + k, 10) : k \in 0..MaxGasStep}

FlashFees == {Zero, Rat(26, 10)}

BridgeAndMev == {<<Zero, Zero>>, <<Rat(10, 100), Rat(15, 100)>>}

(* the dataclass validates no field: a breakdown with a gas cost below 0   *)
(* is constructed and evaluated like any other                             *)
Costs ==
    {TotalCostOfExecution(g, f, bm[1], bm[2]) :
        g \in GasCosts, f \in FlashFees, bm \in BridgeAndMev}
    \cup {TotalCostOfExecution(Rat(-52, 10), Zero, Zero, Zero)}

FlashFeeRates == {Zero, Rat(9, 10000)}

MinProfitBpsChoices == {Zero, Num(30)}

GasSafetyMultipliers == {Rat(3, 2), Num(2)}

MaxTvlPcts == {Rat(10, 100), Rat(20, 100)}

TargetSlippages == {Zero, Rat(1, 21), Rat(20, 100)}

Opportunities ==
    [price_a_to_b : {Num(2)},
     price_b_to_c : {Rat(1003, 2000), Rat(1004, 2000), Rat(11, 20)},
     price_a_to_c : {Num(-1), Zero, One},
     total_fees_pct : {Zero, Rat(3, 1000)}]

(* 50 is below every source's min_loan_usd *)
TriangularVolumes == Volumes \cup {Num(50)}

SelectVolumes ==
    {Zero, Num(99), Num(100), Num(499), Num(500), Num(999), Num(1000), Num(4999),
     Num(5000), Num(10000), Num(999999), Num(1000000), Num(25000001),
     Num(50000001), Num(100000001), Num(500000000), Num(500000001)}

SelectGases ==
    {Zero, Rat(2, 100), Rat(3, 100), Rat(5, 100), Rat(10, 100), Rat(12, 100),
     Rat(15, 100), Rat(20, 100), Num(50), Num(60)}

(* Inputs of the multi-hop calculator *)

MaxQuoteTick == 1

FreeExchange == Exchange(Zero, Zero, Zero)

FeeExchange == Exchange(Rat(1, 100), One, Zero)

SlipExchange == Exchange(Zero, Zero, Rat(1, 10))

CappedSlipExchange == Exchange(Zero, Zero, Num(100))

HighFeeExchange == Exchange(Rat(1, 10), One, Zero)

SteepSlipExchange == Exchange(Zero, Zero, Rat(6, 10))

GentleSlipExchange == Exchange(Zero, Zero, Rat(1, 1000))

Quotes == {Zero, Num(110)} \cup {Num(100 + k) : k \in 0..MaxQuoteTick}

Liquidities == {Num(500000), Num(2000000)}

Pairs ==
    {TradingPair(e, q, q, l) :
        e \in {FreeExchange, FeeExchange}, q \in Quotes, l \in Liquidities}
    \cup {TradingPair(SlipExchange, q, q, l) :
             q \in {Zero, Num(100), Num(110)}, l \in Liquidities}
    \cup {TradingPair(SteepSlipExchange, Num(100), Num(100), Num(2000000))}

HopPairs ==
    {TradingPair(FreeExchange, Num(100), Num(100), Num(2000000)),
     TradingPair(FreeExchange, Num(110), Num(110), Num(2000000)),
     TradingPair(HighFeeExchange, Num(100), Num(100), Num(500000)),
     TradingPair(CappedSlipExchange, Num(110), Num(110), Num(2000000)),
     TradingPair(FreeExchange, Zero, Zero, Num(2000000))}

Capitals == {Zero, Num(10000)}

HopCapitals == {Zero, Num(10000), Num(1000000)}

SlippageTradeSizes == {Zero, Num(10000), Num(500000), Num(1000000)}

SlippageExchanges ==
    {FreeExchange, SlipExchange, CappedSlipExchange, GentleSlipExchange}

RiskProfits == {Num(-50), Zero, Num(50), Num(100)}

RiskSlippages == {Zero, Rat(1, 1000), Rat(1, 100)}

RiskLiquidities == {Zero, Num(500000), Num(2000000)}

RiskComplexities == {2, 3, 4}

WinProbs == {Zero, Rat(1, 10), Rat(1, 2), Rat(19, 20), One}

WinAmounts == {Num(-10), Zero, Num(5), Num(100)}

LossAmounts == {Num(-5), Zero, Num(5), Num(100)}

LegacyCalculators ==
    {MultiHopArbitrageCalculator(Num(30), Num(50), Rat(20, 100)),
     MultiHopArbitrageCalculator(Num(100), Num(50), Rat(20, 100)),
     MultiHopArbitrageCalculator(Num(100), Num(50), Zero)}

(* Inputs of the flash-loan calculator *)

SellPrices == {Num(90), Num(110), Num(120)} \cup {Num(100 + k) : k \in 0..MaxPriceTick}

(* 105 against 100 puts the unclamped optimum between v_min and v_max *)
OptimalVolumeSellPrices == SellPrices \cup {Num(105)}

FlashBuyPrices == {Zero, Num(100)}

FlashParams ==
    {FlashLoanParams(t, f, Rat(5, 100), Rat(20, 100)) :
        t \in {Zero, Num(10000)}, f \in {Zero, Rat(9, 10000)}}

FlashLiquidities == {Zero, Num(10000)}

BaseSlippages == {Zero, Rat(1, 1000)}

Volatilities == {Zero, One}

FlashGasCosts == {Zero, Num(1000)}

ExecutionProbabilities == {Zero, One}

ImpactFactors == {Zero, default_slippage_impact_factor}

UniversalCalculators ==
    {UniversalArbitrageCalculator(Num(30), Rat(1, 2), Rat(20, 100)),
     UniversalArbitrageCalculator(Num(1000), Rat(1, 2), Rat(20, 100)),
     UniversalArbitrageCalculator(Num(30), Num(50), Rat(20, 100))}

SlippageVolumes == Volumes \cup {Num(5000), Num(30000)}

----------------------------------------------------------------------------
(* The state machine                                                       *)

Init ==
    /\ self \in {OmniArbV2Calculator(b, g, t, sl) :
                    b \in MinProfitBpsChoices, g \in GasSafetyMultipliers,
                    t \in MaxTvlPcts, sl \in TargetSlippages}
    /\ legacy_calculator = MultiHopArbitrageCalculator(Num(30), Num(50), Rat(20, 100))
    /\ universal_calculator = UniversalArbitrageCalculator(Num(30), Rat(1, 2), Rat(20, 100))
    /\ op = "idle"
    /\ args = <<>>
    /\ ret = None
    /\ raised = FALSE

(* The caller holds at most one result: a method is called when no result  *)
(* is pending, and the result is dropped before the next call.             *)
Idle == op = "idle"

Finish(name, in, call) ==
    /\ Idle
    /\ op' = name
    /\ args' = in
    /\ ret' = call.value
    /\ raised' = call.raised
    /\ UNCHANGED calculators

CalculateZone6Profit ==
    /\ Idle
    /\ \E price_a \in Prices, price_b \in BuyPrices, volume \in Volumes,
       tvl \in Tvls, cost \in Costs :
        Finish("calculate_zone6_profit",
               [price_a |-> price_a, price_b |-> price_b, volume |-> volume,
                tvl |-> tvl, cost |-> cost],
               calculate_zone6_profit(self, price_a, price_b, volume, tvl, cost))

CalculateTriangularArbitrage ==
    /\ Idle
    /\ \E opp \in Opportunities, volume \in TriangularVolumes, tvl \in SweepTvls,
       gas \in GasCosts :
        Finish("calculate_triangular_arbitrage",
               [opportunity |-> opp, volume |-> volume, tvl |-> tvl,
                gas_cost_usd |-> gas],
               calculate_triangular_arbitrage(self, opp, volume, tvl, gas))

OptimizeTradeSize ==
    /\ Idle
    /\ \E price_a \in SweepPrices, price_b \in SweepBuyPrices, tvl \in OptimizeTvls,
       gas \in GasCosts, rate \in FlashFeeRates :
        Finish("optimize_trade_size",
               [price_a |-> price_a, price_b |-> price_b, tvl |-> tvl,
                gas_cost_usd |-> gas, flash_fee_rate |-> rate],
               optimize_trade_size(self, price_a, price_b, tvl, gas, rate))

(* a selection that takes the chosen source off the calculator's list     *)
SelectAndRemoveBestFlashSource ==
    \E volume \in SelectVolumes :
        LET chosen == select_best_flash_source(self, volume)
        IN  /\ Idle
            /\ op' = "_select_best_flash_source"
            /\ args' = [volume |-> volume]
            /\ ret' = chosen
            /\ raised' = FALSE
            /\ self' = [self EXCEPT !.flash_sources =
                                        SelectSeq(@, LAMBDA c : <<c>> # chosen)]
            /\ UNCHANGED <<legacy_calculator, universal_calculator>>

SelectBestFlashSource ==
    /\ Idle
    /\ \E volume \in SelectVolumes :
        Finish("_select_best_flash_source", [volume |-> volume],
               Returns(select_best_flash_source(self, volume)))

SelectBestChain ==
    /\ Idle
    /\ \E volume \in SelectVolumes, gas \in SelectGases :
        Finish("_select_best_chain", [volume |-> volume, current_gas |-> gas],
               Returns(select_best_chain(self, volume, gas)))

IsTradeSizeSafe ==
    /\ Idle
    /\ \E trade_size \in Volumes \cup {Num(-100)}, tvl \in Tvls,
       max_tvl_pct \in MaxTvlPcts :
        Finish("is_trade_size_safe",
               [trade_size |-> trade_size, tvl |-> tvl, max_tvl_pct |-> max_tvl_pct],
               Returns(is_trade_size_safe(tvl, trade_size, max_tvl_pct)))

OpportunityProperties ==
    /\ Idle
    /\ \E opp \in Opportunities :
        Finish("TriangularArbitrageOpportunity", [opportunity |-> opp],
               Returns([arbitrage_ratio |-> arbitrage_ratio(opp),
                        is_profitable |-> is_profitable(opp)]))

DropResult ==
    /\ ~Idle
    /\ op' = "idle"
    /\ args' = <<>>
    /\ ret' = None
    /\ raised' = FALSE
    /\ UNCHANGED calculators

CalculateDynamicSlippage ==
    /\ Idle
    /\ \E trade_size \in SlippageVolumes, tvl \in Tvls :
        Finish("calculate_dynamic_slippage", [trade_size |-> trade_size, tvl |-> tvl],
               Returns(calculate_dynamic_slippage(tvl, trade_size)))

Calculate2HopArbitrage ==
    /\ Idle
    /\ \E pair1 \in Pairs, pair2 \in Pairs, capital \in Capitals :
        Finish("calculate_2hop_arbitrage",
               [pair1 |-> pair1, pair2 |-> pair2, capital |-> capital],
               calculate_2hop_arbitrage(legacy_calculator, pair1, pair2, capital))

Calculate3HopArbitrage ==
    /\ Idle
    /\ \E pair1 \in HopPairs, pair2 \in HopPairs, pair3 \in HopPairs,
       capital \in HopCapitals :
        Finish("calculate_3hop_arbitrage",
               [pair1 |-> pair1, pair2 |-> pair2, pair3 |-> pair3,
                capital |-> capital],
               calculate_3hop_arbitrage(legacy_calculator, pair1, pair2, pair3, capital))

Calculate4HopArbitrage ==
    /\ Idle
    /\ \E pair1 \in HopPairs, pair2 \in HopPairs, pair3 \in HopPairs,
       pair4 \in HopPairs, capital \in HopCapitals :
        Finish("calculate_4hop_arbitrage",
               [pair1 |-> pair1, pair2 |-> pair2, pair3 |-> pair3,
                pair4 |-> pair4, capital |-> capital],
               calculate_4hop_arbitrage(legacy_calculator, pair1, pair2, pair3,
                                        pair4, capital))

CalculateSlippage ==
    /\ Idle
    /\ \E trade_size \in SlippageTradeSizes, exchange \in SlippageExchanges :
        Finish("_calculate_slippage",
               [trade_size |-> trade_size, exchange |-> exchange],
               Returns(calculate_slippage(trade_size, exchange)))

(* a max_slippage_bps of zero makes line 491 divide by zero *)
CalculateRiskScore ==
    /\ Idle
    /\ \E profit_bps \in RiskProfits, slippage \in RiskSlippages,
       liquidity \in RiskLiquidities, execution_complexity \in RiskComplexities :
        Finish("_calculate_risk_score",
               [profit_bps |-> profit_bps, slippage |-> slippage,
                liquidity |-> liquidity,
                execution_complexity |-> execution_complexity],
               IF legacy_calculator.max_slippage_bps = Zero
               THEN Raises("ZeroDivisionError")
               ELSE Returns(calculate_risk_score(legacy_calculator, profit_bps,
                                slippage, liquidity, execution_complexity)))

CalculateKellyForArb ==
    /\ Idle
    /\ \E win_prob \in WinProbs, win_amount \in WinAmounts, loss_amount \in LossAmounts :
        Finish("_calculate_kelly_for_arb",
               [win_prob |-> win_prob, win_amount |-> win_amount,
                loss_amount |-> loss_amount],
               Returns(calculate_kelly_for_arb(win_prob, win_amount, loss_amount)))

CalculateOptimalVolume ==
    /\ Idle
    /\ \E flash_params \in FlashParams, price_sell \in OptimalVolumeSellPrices,
       price_buy \in FlashBuyPrices, base \in BaseSlippages,
       factor \in ImpactFactors :
        Finish("calculate_optimal_volume",
               [flash_params |-> flash_params, price_sell |-> price_sell,
                price_buy |-> price_buy, base_slippage_sell |-> base,
                base_slippage_buy |-> base, slippage_impact_factor |-> factor],
               Returns(calculate_optimal_volume(flash_params, price_sell, price_buy,
                                                base, base, factor)))

CalculateArbitrage ==
    /\ Idle
    /\ \E price_sell \in SellPrices, price_buy \in FlashBuyPrices,
       flash_params \in FlashParams, liquidity_sell \in FlashLiquidities,
       liquidity_buy \in FlashLiquidities, base \in BaseSlippages,
       volatility \in Volatilities, gas_cost_usd \in FlashGasCosts,
       execution_probability \in ExecutionProbabilities :
        Finish("calculate_arbitrage",
               [price_sell |-> price_sell, price_buy |-> price_buy,
                flash_params |-> flash_params, liquidity_sell |-> liquidity_sell,
                liquidity_buy |-> liquidity_buy, base_slippage_sell |-> base,
                base_slippage_buy |-> base, volatility |-> volatility,
                gas_cost_usd |-> gas_cost_usd,
                execution_probability |-> execution_probability],
               calculate_arbitrage(universal_calculator, price_sell, price_buy,
                   flash_params, liquidity_sell, liquidity_buy, base, base,
                   volatility, gas_cost_usd, execution_probability))

Next ==
    \/ DropResult
    \/ CalculateZone6Profit
    \/ CalculateTriangularArbitrage
    \/ OptimizeTradeSize
    \/ SelectBestFlashSource
    \/ SelectBestChain
    \/ IsTradeSizeSafe
    \/ OpportunityProperties
    \/ CalculateDynamicSlippage

Spec == Init /\ [][Next]_vars

(* The three calculators side by side: one Zone-6 configuration, and the   *)
(* multi-hop and flash-loan calculators over their configurations.         *)
InitAll ==
    /\ self = OmniArbV2Calculator(Num(30), Rat(3, 2), Rat(10, 100), Rat(1, 21))
    /\ legacy_calculator \in LegacyCalculators
    /\ universal_calculator \in UniversalCalculators
    /\ op = "idle"
    /\ args = <<>>
    /\ ret = None
    /\ raised = FALSE

NextAll ==
    \/ DropResult
    \/ CalculateZone6Profit
    \/ CalculateTriangularArbitrage
    \/ OptimizeTradeSize
    \/ SelectBestFlashSource
    \/ SelectBestChain
    \/ IsTradeSizeSafe
    \/ OpportunityProperties
    \/ CalculateDynamicSlippage
    \/ Calculate2HopArbitrage
    \/ Calculate3HopArbitrage
    \/ Calculate4HopArbitrage
    \/ CalculateSlippage
    \/ CalculateRiskScore
    \/ CalculateKellyForArb
    \/ CalculateOptimalVolume
    \/ CalculateArbitrage

SpecAll == InitAll /\ [][NextAll]_vars

----------------------------------------------------------------------------
(* Properties                                                              *)

ReturnedZone6Result ==
    /\ op \in {"calculate_zone6_profit", "calculate_triangular_arbitrage",
               "optimize_trade_size"}
    /\ ~raised

TheResult == IF op = "optimize_trade_size" THEN ret[2] ELSE ret

AbortReasons ==
    {"Invalid input", "Triangular arbitrage not profitable",
     "No profitable trade size found"}

Zone6Evaluated ==
    /\ op = "calculate_zone6_profit"
    /\ ~raised
    /\ RLt(Zero, args.price_a) /\ RLt(Zero, args.price_b) /\ RLt(Zero, args.volume)

CostSum(c) == RAdd(c.gas_cost, RAdd(c.flash_loan_fee, RAdd(c.bridge_fee, c.mev_bribe)))

(* C1, as claimed: every Zone6Result returned by calculate_zone6_profit,   *)
(* calculate_triangular_arbitrage or optimize_trade_size, abort results    *)
(* included, has net_profit = gross_profit - (gas + flash + bridge + MEV). *)
C1_NetProfitEveryResult ==
    ReturnedZone6Result =>
        TheResult.net_profit =
            RSub(TheResult.gross_profit, CostSum(TheResult.cost_of_execution))

(* C1, amended: every returned Zone6Result that is not an abort result has *)
(* net_profit = gross_profit - (gas + flash + bridge + MEV); an abort      *)
(* result has gross_profit = net_profit = 0 whatever its cost is.          *)
C1_NetProfit ==
    ReturnedZone6Result =>
        IF TheResult.abort_reason \in AbortReasons
        THEN TheResult.gross_profit = Zero /\ TheResult.net_profit = Zero
        ELSE TheResult.net_profit =
                RSub(TheResult.gross_profit, CostSum(TheResult.cost_of_execution))

C1_Witness ==
    /\ op = "calculate_triangular_arbitrage"
    /\ ~raised
    /\ ret.abort_reason = None
    /\ ret.cost_of_execution.gas_cost # Zero
    /\ ret.cost_of_execution.flash_loan_fee # Zero

(* The three checklist items of a Zone-6 evaluation, from its inputs and   *)
(* the profit figures of its result.                                       *)
GasItem ==
    RLe(RMul(args.cost.gas_cost, self.gas_safety_multiplier), ret.gross_profit)

SlippageItem == RLe(args.volume, RMul(self.max_tvl_pct, args.tvl))

MarginItem == RLe(self.min_profit_bps, ret.profit_bps)

(* C2, as claimed: for positive prices and volume, is_profitable is true   *)
(* exactly when the gas check, the slippage guard and the minimum margin   *)
(* all pass, for every configuration.                                      *)
C2_ProfitableIffThreeChecks ==
    Zone6Evaluated =>
        (ret.is_profitable <=> (GasItem /\ SlippageItem /\ MarginItem))

(* C2, amended: for positive prices and volume, is_profitable is true      *)
(* exactly when net_profit > 0 and the gas check, the slippage guard and   *)
(* the minimum margin all pass; when min_profit_bps > 0 the three items    *)
(* alone decide.                                                           *)
C2_ProfitableIffChecklist ==
    Zone6Evaluated =>
        /\ ret.is_profitable <=>
              (RLt(Zero, ret.net_profit) /\ GasItem /\ SlippageItem /\ MarginItem)
        /\ RLt(Zero, self.min_profit_bps) =>
              (ret.is_profitable <=> (GasItem /\ SlippageItem /\ MarginItem))

C2_Witness ==
    /\ Zone6Evaluated
    /\ GasItem /\ SlippageItem /\ MarginItem
    /\ ret.net_profit = Zero
    /\ ~ret.is_profitable

(* C3: with the default multiplier 1.5, the gas check of a Zone-6          *)
(* evaluation passes iff gross_profit >= 1.5 x gas_cost (so it fails at    *)
(* 1.49 x and passes at 1.51 x), and a trade failing it is never           *)
(* is_profitable, even with a positive net profit.                         *)
C3_GasCheck ==
    (Zone6Evaluated /\ self.gas_safety_multiplier = Rat(3, 2)) =>
        /\ ret.passed_gas_check <=>
              RLe(RMul(Num(3), args.cost.gas_cost), RMul(Num(2), ret.gross_profit))
        /\ (/\ RLt(Zero, args.cost.gas_cost)
            /\ RLe(ret.gross_profit, RMul(Rat(149, 100), args.cost.gas_cost)))
              => ~ret.passed_gas_check
        /\ RLe(RMul(Rat(151, 100), args.cost.gas_cost), ret.gross_profit)
              => ret.passed_gas_check
        /\ ~ret.passed_gas_check => ~ret.is_profitable

C3_Witness ==
    /\ Zone6Evaluated
    /\ self.gas_safety_multiplier = Rat(3, 2)
    /\ ~ret.passed_gas_check
    /\ RLt(Zero, ret.net_profit)
    /\ ret.passed_slippage_guard
    /\ RLe(self.min_profit_bps, ret.profit_bps)

(* C4: for tvl > 0 the slippage guard passes iff volume <= max_tvl_pct x   *)
(* tvl, the boundary volume = max_tvl_pct x tvl included, both when        *)
(* is_trade_size_safe is called directly and inside a Zone-6 evaluation,   *)
(* where a trade failing the guard is never is_profitable.                 *)
C4_SlippageGuard ==
    /\ (op = "is_trade_size_safe" /\ RLt(Zero, args.tvl)) =>
          /\ ~raised
          /\ ret <=> RLe(args.trade_size, RMul(args.max_tvl_pct, args.tvl))
    /\ (Zone6Evaluated /\ RLt(Zero, args.tvl)) =>
          /\ ret.passed_slippage_guard <=> SlippageItem
          /\ ~ret.passed_slippage_guard => ~ret.is_profitable

C4_Witness ==
    /\ Zone6Evaluated
    /\ self.max_tvl_pct = Rat(10, 100)
    /\ RLt(Zero, args.tvl)
    /\ args.volume = RMul(Rat(10, 100), args.tvl)
    /\ ret.passed_slippage_guard
    /\ ret.is_profitable

(* The first check that fails, in the order gas check, slippage guard,     *)
(* non-positive net profit, minimum margin; None when none of them fails.  *)
FirstFailingCheck ==
    IF ~GasItem THEN "Gas check failed"
    ELSE IF ~SlippageItem THEN "Slippage guard failed"
    ELSE IF RLe(ret.net_profit, Zero) THEN "Net profit negative"
    ELSE IF ~MarginItem THEN "Profit too low"
    ELSE None

InvalidArgs ==
    RLe(args.price_a, Zero) \/ RLe(args.price_b, Zero) \/ RLe(args.volume, Zero)

(* C5, as claimed: for every result of calculate_zone6_profit,             *)
(* abort_reason is None exactly when is_profitable, and otherwise it names *)
(* the first failing check in the order gas check, slippage guard,         *)
(* non-positive net profit, minimum margin.                                *)
C5_ReasonIsFirstOfFour ==
    (op = "calculate_zone6_profit" /\ ~raised) =>
        /\ (ret.abort_reason = None) <=> ret.is_profitable
        /\ ~ret.is_profitable =>
              (ret.abort_reason # None /\ ret.abort_reason = FirstFailingCheck)

(* C5, amended: abort_reason is None exactly when is_profitable; when      *)
(* is_profitable is false it names the first failing check in the order    *)
(* input validation (a non-positive price or volume), gas check, slippage  *)
(* guard, non-positive net profit, minimum margin.                         *)
C5_AbortReason ==
    (op = "calculate_zone6_profit" /\ ~raised) =>
        /\ (ret.abort_reason = None) <=> ret.is_profitable
        /\ ~ret.is_profitable =>
              /\ ret.abort_reason # None
              /\ ret.abort_reason =
                    IF InvalidArgs THEN "Invalid input" ELSE FirstFailingCheck

C5_Witness ==
    /\ Zone6Evaluated
    /\ ret.abort_reason = "Slippage guard failed"
    /\ RLt(Zero, ret.net_profit)
    /\ RLe(self.min_profit_bps, ret.profit_bps)

(* C6: calculate_zone6_profit never raises on a non-positive price, volume *)
(* or tvl: it returns is_profitable = FALSE with an abort_reason; for a    *)
(* non-positive price or volume the result is the abort result, with zero  *)
(* profit and slippage figures and both checks false.                      *)
C6_InvalidInput ==
    (op = "calculate_zone6_profit" /\ (InvalidArgs \/ RLe(args.tvl, Zero))) =>
        /\ ~raised
        /\ ~ret.is_profitable
        /\ ret.abort_reason # None
        /\ InvalidArgs =>
              /\ ret.gross_profit = Zero
              /\ ret.net_profit = Zero
              /\ ret.profit_bps = Zero
              /\ ret.dynamic_slippage = Zero
              /\ ret.slippage_cost = Zero
              /\ ~ret.passed_gas_check
              /\ ~ret.passed_slippage_guard

C6_Witness ==
    /\ op = "calculate_zone6_profit"
    /\ ~raised
    /\ args.price_b = Zero
    /\ RLt(Zero, args.price_a)
    /\ RLt(Zero, args.volume)
    /\ ret.abort_reason = "Invalid input"

(* The available providers whose loan bracket contains the volume.         *)
FittingSources(volume) ==
    {i \in 1..Len(self.flash_sources) :
        /\ self.flash_sources[i].available
        /\ RLe(self.flash_sources[i].min_loan_usd, volume)
        /\ RLe(volume, self.flash_sources[i].max_loan_usd)}

(* C7: flash-source selection returns an available provider whose bracket  *)
(* contains the volume and whose fee rate is the lowest among such         *)
(* providers, and None exactly when there is no such provider.             *)
C7_FlashSource ==
    (op = "_select_best_flash_source") =>
        /\ ~raised
        /\ (ret = <<>>) <=> (FittingSources(args.volume) = {})
        /\ ret # <<>> =>
              /\ \E i \in FittingSources(args.volume) : ret[1] = self.flash_sources[i]
              /\ \A i \in FittingSources(args.volume) :
                    RLe(ret[1].fee_rate, self.flash_sources[i].fee_rate)

C7_Witness ==
    /\ op = "_select_best_flash_source"
    /\ ret # <<>>
    /\ ret[1].source = "UNISWAP"
    /\ Cardinality(FittingSources(args.volume)) > 1

(* The L2 chains that qualify for a volume and a current gas estimate.     *)
QualifyingL2(volume, current_gas) ==
    {i \in 1..Len(self.chain_configs) :
        /\ self.chain_configs[i].is_l2
        /\ RLe(self.chain_configs[i].recommended_min_trade_usd, volume)
        /\ RLt(self.chain_configs[i].avg_gas_cost_usd, current_gas)}

C9_Triangular ==
    (op = "TriangularArbitrageOpportunity") =>
        LET o == args.opportunity
        IN  /\ ~raised
            /\ RLt(Zero, o.price_a_to_c) =>
                  /\ RMul(ret.arbitrage_ratio, o.price_a_to_c)
                        = RMul(o.price_a_to_b, o.price_b_to_c)
                  /\ ret.is_profitable <=>
                        RLt(RMul(RAdd(One, o.total_fees_pct), o.price_a_to_c),
                            RMul(o.price_a_to_b, o.price_b_to_c))
            /\ RLe(o.price_a_to_c, Zero) =>
                  /\ ret.arbitrage_ratio = Zero
                  /\ ret.is_profitable <=> RLt(RAdd(One, o.total_fees_pct), Zero)

C9_Witness ==
    /\ op = "TriangularArbitrageOpportunity"
    /\ RLt(Zero, args.opportunity.total_fees_pct)
    /\ ret.arbitrage_ratio = RAdd(One, args.opportunity.total_fees_pct)
    /\ ~ret.is_profitable

(* The sweep of optimize_trade_size as the claim describes it: max_volume, *)
(* the i-th candidate volume and the Zone-6 evaluation of that candidate.  *)
SweepMax ==
    RMin(get_optimal_trade_size(args.tvl, self.target_slippage),
         RMul(args.tvl, self.max_tvl_pct))

Candidate(i) == RMul(SweepMax, SweepPcts[i])

Evaluation(i) ==
    calculate_zone6_profit(self, args.price_a, args.price_b, Candidate(i), args.tvl,
        TotalCostOfExecution(args.gas_cost_usd,
                             RMul(Candidate(i), args.flash_fee_rate), Zero, Zero)).value

BestCandidate(i) ==
    /\ ret[1] = Candidate(i)
    /\ ret[2] = Evaluation(i)
    /\ \A j \in 1..Len(SweepPcts) :
          RLe(Evaluation(j).net_profit, Evaluation(i).net_profit)
    /\ \A j \in 1..(i - 1) :
          RLt(Evaluation(j).net_profit, Evaluation(i).net_profit)

(* C10, as claimed: optimize_trade_size returns (volume, result) where     *)
(* volume is one of the ten candidates, result is the Zone-6 evaluation at *)
(* that volume and no candidate has a higher net_profit (the smallest      *)
(* candidate on ties).                                                     *)
C10_AlwaysACandidate ==
    (op = "optimize_trade_size" /\ ~raised) =>
        \E i \in 1..Len(SweepPcts) : BestCandidate(i)

(* C10, amended: when max_volume > 0, optimize_trade_size returns          *)
(* (volume, result) where volume is one of the ten candidates, result is   *)
(* the Zone-6 evaluation at that volume and no candidate has a higher      *)
(* net_profit (the smallest candidate on ties); when max_volume <= 0 no    *)
(* candidate is evaluated and it returns volume 0 with the abort result    *)
(* "No profitable trade size found".                                       *)
C10_BestCandidate ==
    (op = "optimize_trade_size") =>
        /\ ~raised
        /\ IF RLt(Zero, SweepMax)
           THEN \E i \in 1..Len(SweepPcts) : BestCandidate(i)
           ELSE /\ ret[1] = Zero
                /\ ret[2] = create_abort_result("No profitable trade size found",
                                args.price_a, args.price_b, Zero,
                                TotalCostOfExecution(args.gas_cost_usd, Zero, Zero, Zero))

C10_Witness ==
    /\ op = "optimize_trade_size"
    /\ ~raised
    /\ RLt(Zero, SweepMax)
    /\ ret[1] = Candidate(3)
    /\ RLt(Zero, ret[2].net_profit)
    /\ RLt(Evaluation(10).net_profit, ret[2].net_profit)
    /\ RLt(Evaluation(1).net_profit, ret[2].net_profit)

----------------------------------------------------------------------------
(* The multi-hop and flash-loan calculators on their own                   *)

NextLegacy ==
    \/ DropResult
    \/ Calculate2HopArbitrage
    \/ Calculate3HopArbitrage
    \/ Calculate4HopArbitrage
    \/ CalculateSlippage
    \/ CalculateRiskScore
    \/ CalculateKellyForArb
    \/ CalculateOptimalVolume
    \/ CalculateArbitrage

SpecLegacy == InitAll /\ [][NextLegacy]_vars

MultiHopCall ==
    op \in {"calculate_2hop_arbitrage", "calculate_3hop_arbitrage",
            "calculate_4hop_arbitrage"}

(* the inputs on which a multi-hop evaluation divides by zero: no capital, *)
(* or an ask price of zero on a hop that buys                              *)
ZeroCapitalOrAsk ==
    \/ args.capital = Zero
    \/ args.pair1.ask_price = Zero
    \/ (op = "calculate_3hop_arbitrage" /\ args.pair2.ask_price = Zero)
    \/ (op = "calculate_4hop_arbitrage" /\ args.pair3.ask_price = Zero)

(* what is left of amount after the pair's trading fee and the slippage s  *)
AfterCosts(amount, pair, s) ==
    RMul(RMul(amount, RSub(One, pair.exchange.trading_fee)), RSub(One, s))

LinearSlippage(amount, pair) ==
    RMul(pair.exchange.slippage_factor, RDiv(amount, Num(100000)))

CappedSlippage(amount, pair) == calculate_slippage(amount, pair.exchange)

(* the slippage of a hop of the 4-hop route, taken on the amount after fee *)
FeeFirstSlippage(amount, pair) ==
    CappedSlippage(RMul(amount, RSub(One, pair.exchange.trading_fee)), pair)

(* the amount a route hands back before gas, written as one expression per *)
(* route type                                                              *)
AmountBack ==
    LET c == args.capital
    IN  IF op = "calculate_2hop_arbitrage"
        THEN LET bought == RDiv(AfterCosts(c, args.pair1, LinearSlippage(c, args.pair1)),
                                args.pair1.ask_price)
                 received == RMul(bought, args.pair2.bid_price)
             IN  AfterCosts(received, args.pair2, LinearSlippage(received, args.pair2))
        ELSE IF op = "calculate_3hop_arbitrage"
        THEN LET v2 == RMul(RDiv(AfterCosts(c, args.pair1, CappedSlippage(c, args.pair1)),
                                 args.pair1.ask_price), args.pair2.ask_price)
                 v3 == RMul(RDiv(AfterCosts(v2, args.pair2, CappedSlippage(v2, args.pair2)),
                                 args.pair2.ask_price), args.pair3.bid_price)
             IN  AfterCosts(v3, args.pair3, CappedSlippage(v3, args.pair3))
        ELSE LET a1 == RDiv(AfterCosts(c, args.pair1, FeeFirstSlippage(c, args.pair1)),
                            args.pair1.ask_price)
                 a2 == RMul(AfterCosts(a1, args.pair2, FeeFirstSlippage(a1, args.pair2)),
                            args.pair2.bid_price)
                 a3 == RDiv(AfterCosts(a2, args.pair3, FeeFirstSlippage(a2, args.pair3)),
                            args.pair3.ask_price)
             IN  RMul(AfterCosts(a3, args.pair4, FeeFirstSlippage(a3, args.pair4)),
                      args.pair4.bid_price)

RouteGas ==
    LET g(p) == p.exchange.gas_cost
    IN  IF op = "calculate_2hop_arbitrage" THEN RAdd(g(args.pair1), g(args.pair2))
        ELSE IF op = "calculate_3hop_arbitrage"
        THEN RAdd(g(args.pair1), RAdd(g(args.pair2), g(args.pair3)))
        ELSE RAdd(RAdd(g(args.pair1), g(args.pair2)), RAdd(g(args.pair3), g(args.pair4)))

GrossProfitBps ==
    RMul(RSub(RSub(AmountBack, RouteGas), args.capital), RDiv(Num(10000), args.capital))

NetProfitBps == RMul(GrossProfitBps, RSub(One, legacy_calculator.safety_margin))

TwoHopWithoutCosts ==
    /\ op = "calculate_2hop_arbitrage"
    /\ args.pair1.exchange = Exchange(Zero, Zero, Zero)
    /\ args.pair2.exchange = Exchange(Zero, Zero, Zero)
    /\ RLt(Zero, args.capital)
    /\ RLt(Zero, args.pair1.ask_price)
    /\ RLt(Zero, args.pair2.bid_price)

(* (sell_price - buy_price) / buy_price x 10000, buying at pair1's ask and *)
(* selling at pair2's bid                                                  *)
RawSpreadBps ==
    RMul(RDiv(RSub(args.pair2.bid_price, args.pair1.ask_price), args.pair1.ask_price),
         Num(10000))

(* C12, as claimed: with zero trading fees, zero slippage factor and zero  *)
(* gas, the expected_profit_bps of the route the 2-hop evaluation returns  *)
(* equals (sell_price - buy_price) / buy_price x 10000.                    *)
C12_EqualsRawSpread ==
    (TwoHopWithoutCosts /\ ~raised /\ ret # <<>>) =>
        ret[1].expected_profit_bps = RawSpreadBps

(* C12, amended: with zero trading fees, zero slippage factor and zero gas *)
(* the 2-hop evaluation does not raise, and its net_profit_bps is          *)
(* (1 - safety_margin) x (sell_price - buy_price) / buy_price x 10000: it  *)
(* returns None when that is below min_profit_bps and otherwise a route    *)
(* with that expected_profit_bps.                                          *)
C12_DiscountedSpread ==
    TwoHopWithoutCosts =>
        LET discounted == RMul(RSub(One, legacy_calculator.safety_margin), RawSpreadBps)
        IN  /\ ~raised
            /\ IF RLt(discounted, legacy_calculator.min_profit_bps)
               THEN ret = <<>>
               ELSE /\ ret # <<>>
                    /\ ret[1].expected_profit_bps = discounted

C12_Witness ==
    /\ TwoHopWithoutCosts
    /\ ~raised
    /\ ret # <<>>
    /\ legacy_calculator.safety_margin = Rat(20, 100)
    /\ RawSpreadBps = Num(1000)
    /\ ret[1].expected_profit_bps = Num(800)


Clamp(x, lo, hi) == RMax(lo, RMin(hi, x))

(* C13: for win_prob in [0, 1], win_amount >= 0 and loss_amount > 0 the    *)
(* Kelly fraction of _calculate_kelly_for_arb lies in [0, 0.25] and equals *)
(* 0.25 x clamp((p*b - q)/b, 0, 1) with b = win_amount / loss_amount,      *)
(* p = win_prob and q = 1 - p, taken as 0 when b = 0; for                  *)
(* loss_amount <= 0 it is 0.                                               *)
C13_KellyFraction ==
    (op = "_calculate_kelly_for_arb") =>
        /\ ~raised
        /\ RLe(args.loss_amount, Zero) => ret = Zero
        /\ (/\ RLt(Zero, args.loss_amount)
            /\ RLe(Zero, args.win_amount)
            /\ RLe(Zero, args.win_prob) /\ RLe(args.win_prob, One)) =>
                LET b == RDiv(args.win_amount, args.loss_amount)
                    p == args.win_prob
                    q == RSub(One, p)
                IN  /\ RLe(Zero, ret) /\ RLe(ret, Rat(1, 4))
                    /\ ret = IF b = Zero THEN Zero
                             ELSE RMul(Rat(1, 4),
                                       Clamp(RSub(p, RDiv(q, b)), Zero, One))

C13_Witness ==
    /\ op = "_calculate_kelly_for_arb"
    /\ ~raised
    /\ args.win_prob = Rat(1, 2)
    /\ args.win_amount = Num(100)
    /\ args.loss_amount = Num(5)
    /\ ret = Rat(19, 160)


(* C14: whenever price_sell - price_buy <= 0, calculate_optimal_volume     *)
(* returns 0, whatever the pool, the fee rate and the slippage impact      *)
(* factor are, and performs no division.                                   *)
C14_NoSpreadNoVolume ==
    (/\ op = "calculate_optimal_volume"
     /\ RLe(RSub(args.price_sell, args.price_buy), Zero)) =>
        /\ ~raised
        /\ ret.volume = Zero
        /\ ret.divisions = 0

C14_Witness ==
    /\ op = "calculate_optimal_volume"
    /\ ~raised
    /\ args.price_sell = args.price_buy
    /\ RLt(Zero, args.flash_params.tvl)
    /\ RLt(Zero, args.slippage_impact_factor)
    /\ ret.volume = Zero


FlashLoanEvaluated == op = "calculate_arbitrage" /\ ~raised

(* C15, as claimed: calculate_arbitrage reports is_profitable exactly when *)
(* net_profit > 0 and profit_bps >= min_profit_bps.                        *)
C15_ProfitableIffNetPositive ==
    FlashLoanEvaluated =>
        (ret.is_profitable <=>
            /\ RLt(Zero, ret.net_profit)
            /\ RLe(universal_calculator.min_profit_bps, ret.profit_bps))

(* the profit the decision is taken on: net profit less gas, discounted by *)
(* the safety margin, the execution probability and the time decay         *)
(* max(0.5, 1 - volatility / 2)                                            *)
DiscountedProfit ==
    LET decay == RMax(Rat(1, 2), RSub(One, RDiv(args.volatility, Num(2))))
        discount == RMul(RMul(decay, args.execution_probability),
                         RSub(One, universal_calculator.safety_margin))
    IN  RMul(discount, RSub(ret.net_profit, args.gas_cost_usd))

(* C15, amended: calculate_arbitrage reports is_profitable exactly when    *)
(* (net_profit - gas_cost_usd) x (1 - safety_margin) x                     *)
(* execution_probability x time_decay_factor > 0 and                       *)
(* profit_bps >= min_profit_bps.                                           *)
C15_ProfitableIffAdjustedPositive ==
    FlashLoanEvaluated =>
        (ret.is_profitable <=>
            /\ RLt(Zero, DiscountedProfit)
            /\ RLe(universal_calculator.min_profit_bps, ret.profit_bps))

C15_Witness ==
    /\ FlashLoanEvaluated
    /\ RLt(Zero, ret.net_profit)
    /\ RLe(universal_calculator.min_profit_bps, ret.profit_bps)
    /\ RLt(ret.net_profit, args.gas_cost_usd)
    /\ args.execution_probability = One
    /\ ~ret.is_profitable


(* a multi-hop call whose buying hops all quote a non-zero ask, so that    *)
(* the capital is the only divisor that can be zero                        *)
AsksQuoted ==
    /\ args.pair1.ask_price # Zero
    /\ op = "calculate_3hop_arbitrage" => args.pair2.ask_price # Zero
    /\ op = "calculate_4hop_arbitrage" => args.pair3.ask_price # Zero

Zone6Returned ==
    /\ op \in {"calculate_zone6_profit", "calculate_triangular_arbitrage",
               "optimize_trade_size"}
    /\ ~raised

BpsOf(profit, notional) ==
    IF RLt(Zero, notional) THEN RMul(profit, RDiv(Num(10000), notional))
    ELSE Zero

(* C16: in every calculator profit_bps is net_profit / notional x 10000    *)
(* for a notional > 0 and 0 for a notional of 0, and no evaluation raises  *)
(* a division error for a zero notional.                                   *)
C16_ProfitBpsGuarded ==
    /\ (MultiHopCall /\ AsksQuoted /\ args.capital = Zero) => ~raised
    /\ (MultiHopCall /\ ~raised /\ ret # <<>>) =>
            ret[1].expected_profit_bps = BpsOf(ret[1].expected_profit, args.capital)
    /\ op = "calculate_arbitrage" /\ args.price_buy # Zero => ~raised
    /\ FlashLoanEvaluated => ret.profit_bps = BpsOf(ret.net_profit, ret.loan_volume)
    /\ op = "calculate_zone6_profit" /\ args.volume = Zero => ~raised
    /\ Zone6Returned =>
            TheResult.profit_bps = BpsOf(TheResult.net_profit, TheResult.volume)

(* the parts of C16 the code keeps: the flash-loan and Zone-6 evaluations  *)
(* guard the notional, and the multi-hop routes that are returned carry    *)
(* expected_profit / capital x 10000                                       *)
C16_GuardedOutsideMultiHop ==
    /\ (MultiHopCall /\ ~raised /\ ret # <<>>) =>
            ret[1].expected_profit_bps = BpsOf(ret[1].expected_profit, args.capital)
    /\ op = "calculate_arbitrage" /\ args.price_buy # Zero => ~raised
    /\ FlashLoanEvaluated => ret.profit_bps = BpsOf(ret.net_profit, ret.loan_volume)
    /\ op = "calculate_zone6_profit" /\ args.volume = Zero => ~raised
    /\ Zone6Returned =>
            TheResult.profit_bps = BpsOf(TheResult.net_profit, TheResult.volume)

(* the failing input: a 2-hop evaluation of quoted pairs with no capital   *)
C16_ZeroCapitalRaises ==
    /\ op = "calculate_2hop_arbitrage"
    /\ AsksQuoted
    /\ args.capital = Zero
    /\ raised
    /\ ret = "ZeroDivisionError"


(* C17: for tvl > 0 the constant-product slippage is 0 at volume 0, below  *)
(* 1 for every volume >= 0 and strictly smaller than the slippage of every *)
(* larger volume; for tvl <= 0 it is the maximal slippage 1.0.             *)
C17_ConstantProductSlippage ==
    op = "calculate_dynamic_slippage" =>
        IF RLt(Zero, args.tvl)
        THEN /\ args.trade_size = Zero => ret = Zero
             /\ RLe(Zero, args.trade_size) => RLt(ret, One)
             /\ \A volume \in SlippageVolumes :
                    RLt(args.trade_size, volume) =>
                        RLt(ret, calculate_dynamic_slippage(args.tvl, volume))
        ELSE ret = One /\ ~raised

C17_Witness ==
    /\ op = "calculate_dynamic_slippage"
    /\ args.tvl = Num(1000)
    /\ args.trade_size = Num(5000)
    /\ ret = Rat(5, 6)


(* a Zone-6 evaluation of valid inputs: positive prices, volume and TVL    *)
Zone6ValidCall ==
    /\ op = "calculate_zone6_profit"
    /\ ~raised
    /\ RLt(Zero, args.price_a) /\ RLt(Zero, args.price_b)
    /\ RLt(Zero, args.volume) /\ RLt(Zero, args.tvl)

(* a flash-loan evaluation of valid inputs: positive prices, TVL and       *)
(* liquidity on both sides                                                 *)
FlashLoanValidCall ==
    /\ FlashLoanEvaluated
    /\ RLt(Zero, args.price_sell) /\ RLt(Zero, args.price_buy)
    /\ RLt(Zero, args.flash_params.tvl)
    /\ RLt(Zero, args.liquidity_sell) /\ RLt(Zero, args.liquidity_buy)

(* the Zone-6 evaluation of the pending call at another sell price         *)
Zone6At(price_a) ==
    calculate_zone6_profit(self, price_a, args.price_b, args.volume, args.tvl,
                           args.cost).value

(* the flash-loan evaluation of the pending call at another sell price     *)
FlashLoanAt(price_sell) ==
    calculate_arbitrage(universal_calculator, price_sell, args.price_buy,
        args.flash_params, args.liquidity_sell, args.liquidity_buy,
        args.base_slippage_sell, args.base_slippage_buy, args.volatility,
        args.gas_cost_usd, args.execution_probability).value

Zone6GrossRises ==
    Zone6ValidCall =>
        \A price_a \in Prices :
            RLt(args.price_a, price_a) =>
                RLt(ret.gross_profit, Zone6At(price_a).gross_profit)

(* C18, as claimed: over valid inputs a higher sell price gives a strictly *)
(* higher gross_profit, all else fixed, in calculate_zone6_profit and in   *)
(* calculate_arbitrage.                                                    *)
C18_SellPriceRaisesGross ==
    /\ Zone6GrossRises
    /\ FlashLoanValidCall =>
            \A price_sell \in SellPrices :
                RLt(args.price_sell, price_sell) =>
                    RLt(ret.gross_profit, FlashLoanAt(price_sell).gross_profit)

(* C18, amended: over valid inputs a higher sell price gives a strictly    *)
(* higher gross_profit in calculate_zone6_profit; in calculate_arbitrage   *)
(* it does so between evaluations that settle on the same positive loan    *)
(* volume, and gross_profit is 0 whenever price_sell <= price_buy.         *)
C18_SellPriceRaisesGrossAtSameVolume ==
    /\ Zone6GrossRises
    /\ FlashLoanValidCall =>
            /\ RLe(args.price_sell, args.price_buy) => ret.gross_profit = Zero
            /\ \A price_sell \in SellPrices :
                    /\ RLt(args.price_sell, price_sell)
                    /\ RLt(Zero, ret.loan_volume)
                    /\ FlashLoanAt(price_sell).loan_volume = ret.loan_volume
                    => RLt(ret.gross_profit, FlashLoanAt(price_sell).gross_profit)

C18_Witness ==
    /\ FlashLoanValidCall
    /\ args.price_sell = Num(110)
    /\ RLt(Zero, ret.loan_volume)
    /\ FlashLoanAt(Num(120)).loan_volume = ret.loan_volume
    /\ RLt(ret.gross_profit, FlashLoanAt(Num(120)).gross_profit)

C18_Zone6Witness ==
    /\ Zone6ValidCall
    /\ args.price_a = Num(100)
    /\ RLt(ret.gross_profit, Zone6At(Num(110)).gross_profit)


Reevaluated(result) ==
    calculate_zone6_profit(self, result.price_a, result.price_b, result.volume,
                           args.tvl, result.cost_of_execution)

ReproducesNetProfit(result) ==
    /\ ~Reevaluated(result).raised
    /\ Reevaluated(result).value.net_profit = result.net_profit

(* C20, as claimed: re-evaluating from any Zone6Result returned by         *)
(* calculate_zone6_profit, calculate_triangular_arbitrage or               *)
(* optimize_trade_size reproduces its net_profit.                          *)
C20_RoundTrip ==
    Zone6Returned => ReproducesNetProfit(TheResult)

(* C20, amended: re-evaluating from any returned Zone6Result reproduces    *)
(* its net_profit, except from the "Triangular arbitrage not profitable"   *)
(* abort result of calculate_triangular_arbitrage.                         *)
C20_RoundTripOfEvaluations ==
    (Zone6Returned /\ TheResult.abort_reason # "Triangular arbitrage not profitable")
        => ReproducesNetProfit(TheResult)

C20_Witness ==
    /\ op = "calculate_triangular_arbitrage"
    /\ ~raised
    /\ ret.abort_reason # "Triangular arbitrage not profitable"
    /\ ret.net_profit # Zero
    /\ ret.price_a # args.opportunity.price_a_to_c
    /\ ReproducesNetProfit(ret)


----------------------------------------------------------------------------
(* C21: the total of a cost breakdown is gas_cost + flash_loan_fee +      *)
(* bridge_fee + mev_bribe, and it is >= 0 for every breakdown the engine   *)
(* accepts (evaluates without the "Invalid input" abort) or constructs.    *)

BreakdownAccepted ==
    /\ ReturnedZone6Result
    /\ TheResult.abort_reason # "Invalid input"

C21_TotalAdditiveNonNegative ==
    BreakdownAccepted =>
        /\ total(TheResult.cost_of_execution) = CostSum(TheResult.cost_of_execution)
        /\ RLe(Zero, total(TheResult.cost_of_execution))

(* the additive half of C21 alone, which holds for every breakdown *)
C21_TotalAdditive ==
    BreakdownAccepted =>
        total(TheResult.cost_of_execution) = CostSum(TheResult.cost_of_execution)

(* a breakdown with a total below 0 is evaluated and comes back profitable *)
C21_NegativeTotalAccepted ==
    /\ Zone6Evaluated
    /\ RLt(total(ret.cost_of_execution), Zero)
    /\ ret.is_profitable


----------------------------------------------------------------------------
(* C22: in every hop of the 2-hop, 3-hop and 4-hop evaluations the         *)
(* slippage applied to the running amount is                               *)
(* min(slippage_factor x notional / 100000, 0.05), never more than 5% per  *)
(* hop, for every capital and slippage factor.  The 3-hop and 4-hop hops   *)
(* apply what _calculate_slippage returns; a 2-hop route reports the sum   *)
(* of the slippages of its two hops.                                       *)

ClaimedSlippage(notional, exchange) ==
    RMin(RMul(exchange.slippage_factor, RDiv(notional, Num(100000))), Rat(5, 100))

(* what the second hop of a 2-hop route receives when the first hop's      *)
(* slippage is the claimed one                                             *)
ClaimedReceived ==
    RMul(RDiv(AfterCosts(args.capital, [exchange |-> FreeExchange],
                         ClaimedSlippage(args.capital, args.pair1.exchange)),
              args.pair1.ask_price),
         RMul(RSub(One, args.pair1.exchange.trading_fee), args.pair2.bid_price))

C22_SlippageCappedLinear ==
    /\ (op = "_calculate_slippage" =>
            ret = ClaimedSlippage(args.trade_size, args.exchange))
    /\ (op = "calculate_2hop_arbitrage" /\ ~raised /\ ret # <<>> =>
            ret[1].slippage_estimate =
                RAdd(ClaimedSlippage(args.capital, args.pair1.exchange),
                     ClaimedSlippage(ClaimedReceived, args.pair2.exchange)))

(* a 2-hop route comes back with more than 5% of slippage on its first hop *)
C22_TwoHopAboveCap ==
    /\ op = "calculate_2hop_arbitrage" /\ ~raised /\ ret # <<>>
    /\ args.pair2.exchange.slippage_factor = Zero
    /\ RLt(Rat(5, 100), ret[1].slippage_estimate)

(* above 500,000 of notional _calculate_slippage returns more than the     *)
(* linear term, below the cap                                              *)
C22_SurchargeAboveLinear ==
    /\ op = "_calculate_slippage"
    /\ RLt(RMul(args.exchange.slippage_factor, RDiv(args.trade_size, Num(100000))), ret)
    /\ RLt(ret, Rat(5, 100))

(* what _calculate_slippage does return is never more than 5% *)
C22_HelperNeverAboveCap ==
    op = "_calculate_slippage" => RLe(ret, Rat(5, 100))


----------------------------------------------------------------------------
(* C23: in the 3-hop evaluation every hop converts the running amount      *)
(* through that hop's pair price: with zero fees, zero slippage and zero   *)
(* gas, the final amount, and hence the profit of the route, changes       *)
(* whenever pair2's price changes, all other inputs fixed.                 *)

CostFree(pair) == pair.exchange = FreeExchange

ThreeHopWithoutCosts ==
    /\ op = "calculate_3hop_arbitrage"
    /\ ~raised
    /\ ret # <<>>
    /\ CostFree(args.pair1) /\ CostFree(args.pair2) /\ CostFree(args.pair3)

(* the same evaluation with pair2 replaced *)
ThreeHopAt(pair2) ==
    calculate_3hop_arbitrage(legacy_calculator, args.pair1, pair2, args.pair3,
                             args.capital)

RepricedPair2 ==
    {p \in HopPairs : /\ CostFree(p)
                      /\ p.ask_price # Zero
                      /\ p.ask_price # args.pair2.ask_price}

C23_Pair2PriceMoves ==
    ThreeHopWithoutCosts =>
        \A p \in RepricedPair2 :
            \/ ThreeHopAt(p).value = <<>>
            \/ ThreeHopAt(p).value[1].expected_profit # ret[1].expected_profit

(* what the code computes: pair2's price cancels, and the route is that of *)
(* capital x pair3.bid_price / pair1.ask_price                             *)
C23_Pair2PriceCancels ==
    ThreeHopWithoutCosts =>
        /\ \A p \in RepricedPair2 : ThreeHopAt(p).value = ret
        /\ ret[1].expected_profit =
               RMul(RSub(RDiv(RMul(args.capital, args.pair3.bid_price),
                              args.pair1.ask_price), args.capital),
                    RSub(One, legacy_calculator.safety_margin))

C23_RepricedSameRoute ==
    /\ ThreeHopWithoutCosts
    /\ RepricedPair2 # {}


----------------------------------------------------------------------------
(* C24: the multi-hop risk score is always in [0, 100], and each sub-term  *)
(* is clamped to its allotted weight before summing: the profit-margin     *)
(* term lies in [0, 30], the slippage term in [0, 25] and the liquidity    *)
(* term in [0, 25], for every profit_bps (negative ones included),         *)
(* slippage and liquidity; the complexity term is (hops - 2) x 10.         *)

RiskScored == op = "_calculate_risk_score" /\ ~raised

Within(x, lo, hi) == RLe(lo, x) /\ RLe(x, hi)

C24_SubTermsWithinWeights ==
    RiskScored =>
        /\ Within(ret, Zero, Num(100))
        /\ Within(profit_risk(args.profit_bps), Zero, Num(30))
        /\ Within(slippage_risk(legacy_calculator, args.slippage), Zero, Num(25))
        /\ Within(liquidity_risk(args.liquidity), Zero, Num(25))
        /\ ret = Clamp(RAdd(RAdd(Clamp(profit_risk(args.profit_bps), Zero, Num(30)),
                                 Clamp(slippage_risk(legacy_calculator, args.slippage),
                                       Zero, Num(25))),
                            RAdd(Clamp(liquidity_risk(args.liquidity), Zero, Num(25)),
                                 Num((args.execution_complexity - 2) * 10))),
                       Zero, Num(100))

(* what does hold: the score is in [0, 100] and the liquidity term, for a  *)
(* liquidity that is not negative, in [0, 25]                              *)
C24_ScoreWithinRange ==
    RiskScored =>
        /\ Within(ret, Zero, Num(100))
        /\ Within(liquidity_risk(args.liquidity), Zero, Num(25))

(* a loss of 50 basis points gives a profit-margin term of 60, and it      *)
(* shows in the score                                                      *)
C24_ProfitTermAboveWeight ==
    /\ RiskScored
    /\ args.profit_bps = Num(-50)
    /\ args.slippage = Zero /\ args.liquidity = Num(2000000)
    /\ args.execution_complexity = 2
    /\ ret = Num(60)

(* a slippage of 1% against max_slippage_bps = 50 gives a slippage term of *)
(* 50, and it shows in the score                                           *)
C24_SlippageTermAboveWeight ==
    /\ RiskScored
    /\ args.profit_bps = Num(100)
    /\ args.slippage = Rat(1, 100) /\ args.liquidity = Num(2000000)
    /\ args.execution_complexity = 2
    /\ ret = Num(50)


----------------------------------------------------------------------------
(* C25: for spread > 0 and a pool with 0 <= c_min <= c_max <= 1,           *)
(* calculate_optimal_volume returns v_max when the slippage coefficient    *)
(* k = slippage_impact_factor x (price_sell + price_buy) is <= 1e-12, and  *)
(* otherwise (spread - fee_rate) / (2k) clamped to [v_min, v_max]; in both *)
(* cases v_min <= V* <= v_max.  The pool's TVL is an amount, not below 0.  *)

OptimalVolumeOfSpread ==
    /\ op = "calculate_optimal_volume"
    /\ RLt(args.price_buy, args.price_sell)
    /\ Within(args.flash_params.c_min, Zero, args.flash_params.c_max)
    /\ RLe(args.flash_params.c_max, One)
    /\ RLe(Zero, args.flash_params.tvl)

SlippageCoefficient ==
    RMul(args.slippage_impact_factor, RAdd(args.price_sell, args.price_buy))

(* k <= 1e-12, with both sides multiplied by 1e6 *)
CoefficientAtMostEpsilon ==
    RLe(RMul(SlippageCoefficient, Num(1000000)), Rat(1, 1000000))

UnclampedOptimum ==
    RDiv(RSub(RSub(args.price_sell, args.price_buy), args.flash_params.fee_rate),
         RMul(Num(2), SlippageCoefficient))

C25_ClampedAbove ==
    /\ OptimalVolumeOfSpread
    /\ ~CoefficientAtMostEpsilon
    /\ RLt(ret.volume, UnclampedOptimum)

C25_ClampedBelow ==
    /\ OptimalVolumeOfSpread
    /\ ~CoefficientAtMostEpsilon
    /\ RLt(UnclampedOptimum, ret.volume)

C25_FallBack ==
    /\ OptimalVolumeOfSpread
    /\ CoefficientAtMostEpsilon
    /\ RLt(Zero, ret.volume)


----------------------------------------------------------------------------
(* C26: when a triangular opportunity is profitable,                       *)
(* calculate_triangular_arbitrage returns exactly the result of            *)
(* calculate_zone6_profit with price_a = R (the cycle ratio),              *)
(* price_b = 1.0, the same volume and pool, and a cost whose bridge fee    *)
(* and MEV fee are 0, whose gas is the given gas cost and whose flash fee  *)
(* is volume x the selected flash source's fee rate (0.0009 when no source *)
(* fits); when it is not profitable it returns an abort result and never   *)
(* evaluates Zone-6.                                                       *)

TriangularCall == op = "calculate_triangular_arbitrage"

CycleProfitable ==
    /\ RLt(Zero, args.opportunity.price_a_to_c)
    /\ RLt(RMul(RAdd(One, args.opportunity.total_fees_pct),
                args.opportunity.price_a_to_c),
           RMul(args.opportunity.price_a_to_b, args.opportunity.price_b_to_c))

CycleRatio ==
    RDiv(RMul(args.opportunity.price_a_to_b, args.opportunity.price_b_to_c),
         args.opportunity.price_a_to_c)

SelectedFeeRate ==
    IF FittingSources(args.volume) = {} THEN Rat(9, 10000)
    ELSE self.flash_sources[MinOf(FittingSources(args.volume))].fee_rate

TriangularAsZone6 ==
    calculate_zone6_profit(self, CycleRatio, One, args.volume, args.tvl,
        [gas_cost |-> args.gas_cost_usd,
         flash_loan_fee |-> RMul(args.volume, SelectedFeeRate),
         bridge_fee |-> Zero, mev_bribe |-> Zero])

C26_TriangularIsZone6 ==
    TriangularCall =>
        IF CycleProfitable
        THEN /\ raised = TriangularAsZone6.raised
             /\ ret = TriangularAsZone6.value
        ELSE /\ ~raised
             /\ ret.abort_reason = "Triangular arbitrage not profitable"
             /\ ~ret.is_profitable
             /\ ret.gross_profit = Zero /\ ret.net_profit = Zero
             /\ ret.dynamic_slippage = Zero /\ ret.slippage_cost = Zero
             /\ ret.recommended_flash_source = None
             /\ ret.recommended_chain = None
             /\ ret.cost_of_execution.flash_loan_fee = Zero

(* a profitable cycle evaluated at a volume whose source charges less than *)
(* the fall-back rate                                                      *)
C26_Witness ==
    /\ TriangularCall /\ ~raised
    /\ CycleProfitable
    /\ RLt(Zero, ret.cost_of_execution.flash_loan_fee)
    /\ RLt(ret.cost_of_execution.flash_loan_fee, RMul(args.volume, Rat(9, 10000)))
    /\ ret.price_a = CycleRatio
    /\ ret.is_profitable

(* a profitable cycle at a volume no source lends: the fall-back rate      *)
C26_FallBackRate ==
    /\ TriangularCall /\ ~raised
    /\ CycleProfitable
    /\ FittingSources(args.volume) = {}
    /\ ret.cost_of_execution.flash_loan_fee = RMul(args.volume, Rat(9, 10000))
    /\ RLt(Zero, ret.cost_of_execution.flash_loan_fee)

C26_Aborted ==
    /\ TriangularCall /\ ~raised
    /\ ~CycleProfitable
    /\ RLt(Zero, args.volume)


----------------------------------------------------------------------------
(* should_execute, called on the Zone6Result the caller holds              *)

(* the decision with the last test, of is_profitable, left out *)
should_execute_on_two_checks(result) ==
    IF ~result.passed_gas_check THEN <<FALSE, "ABORT">>
    ELSE IF ~result.passed_slippage_guard THEN <<FALSE, "REDUCE SIZE">>
    ELSE <<TRUE, "EXECUTE">>

(* lines 1774-1799: the formatted message is modelled by its fixed prefix  *)
should_execute(result) ==
    IF ~result.passed_gas_check THEN <<FALSE, "ABORT">>
    ELSE IF ~result.passed_slippage_guard THEN <<FALSE, "REDUCE SIZE">>
    ELSE IF ~result.is_profitable THEN <<FALSE, "ABORT">>
    ELSE <<TRUE, "EXECUTE">>

ShouldExecute ==
    /\ ReturnedZone6Result
    /\ op' = "should_execute"
    /\ args' = [result |-> TheResult]
    /\ ret' = should_execute(TheResult)
    /\ raised' = FALSE
    /\ UNCHANGED calculators

(* The Zone-6 engine with its execution decision, over the configurations  *)
(* of the minimum margin and of the slippage guard.                        *)
InitDecision ==
    /\ self \in {OmniArbV2Calculator(b, Rat(3, 2), t, Rat(1, 21)) :
                    b \in MinProfitBpsChoices, t \in MaxTvlPcts}
    /\ legacy_calculator = MultiHopArbitrageCalculator(Num(30), Num(50), Rat(20, 100))
    /\ universal_calculator = UniversalArbitrageCalculator(Num(30), Rat(1, 2), Rat(20, 100))
    /\ op = "idle"
    /\ args = <<>>
    /\ ret = None
    /\ raised = FALSE

NextDecision ==
    \/ DropResult
    \/ CalculateZone6Profit
    \/ CalculateTriangularArbitrage
    \/ OptimizeTradeSize
    \/ ShouldExecute

SpecDecision == InitDecision /\ [][NextDecision]_vars

Decided == op = "should_execute"

(* C27: for every Zone6Result produced by the engine, should_execute       *)
(* returns (True, ...) if and only if result.is_profitable is true; it     *)
(* never approves a result that failed the gas check or the slippage       *)
(* guard, and it tests them in the order gas check (ABORT), slippage guard *)
(* (REDUCE SIZE), is_profitable (ABORT).                                   *)
C27_ExecuteIffProfitable ==
    Decided =>
        /\ ret[1] <=> args.result.is_profitable
        /\ ret[1] => (args.result.passed_gas_check /\ args.result.passed_slippage_guard)
        /\ ~args.result.passed_gas_check => ret[2] = "ABORT"
        /\ (args.result.passed_gas_check /\ ~args.result.passed_slippage_guard)
              => ret[2] = "REDUCE SIZE"
        /\ (/\ args.result.passed_gas_check /\ args.result.passed_slippage_guard
            /\ ~args.result.is_profitable) => ret[2] = "ABORT"
        /\ ret[1] <=> ret[2] = "EXECUTE"

(* a result that passed both checks is turned down for its margin *)
C27_Witness ==
    /\ Decided
    /\ args.result.passed_gas_check /\ args.result.passed_slippage_guard
    /\ ~args.result.is_profitable
    /\ RLt(Zero, args.result.net_profit)
    /\ ret = <<FALSE, "ABORT">>

C27_Approved ==
    /\ Decided
    /\ args.result.is_profitable
    /\ ret = <<TRUE, "EXECUTE">>

C27_ReduceSize ==
    /\ Decided
    /\ ret = <<FALSE, "REDUCE SIZE">>

(* a result failing both checks is an ABORT: the gas check is tested first *)
C27_GasCheckFirst ==
    /\ Decided
    /\ args.result.abort_reason = "Gas check failed"
    /\ ~args.result.passed_slippage_guard
    /\ ret = <<FALSE, "ABORT">>


----------------------------------------------------------------------------
(* The returned volume of optimize_trade_size against the pool's limits    *)

Optimized == op = "optimize_trade_size"

PositivePrices == RLt(Zero, args.price_a) /\ RLt(Zero, args.price_b)

(* the returned volume is > 0, at most max_tvl_pct x tvl and at most the   *)
(* size x with x / (tvl + x) = target_slippage, and the returned result    *)
(* passed the slippage guard with a slippage of at most target_slippage    *)
VolumeWithinLimits ==
    /\ RLt(Zero, ret[1])
    /\ RLe(ret[1], RMul(self.max_tvl_pct, args.tvl))
    /\ RLe(RMul(ret[1], RSub(One, self.target_slippage)),
           RMul(self.target_slippage, args.tvl))
    /\ ret[2].volume = ret[1]
    /\ ret[2].passed_slippage_guard
    /\ RLe(ret[2].dynamic_slippage, self.target_slippage)

NoCandidate ==
    /\ ret[1] = Zero
    /\ ret[2].abort_reason = "No profitable trade size found"
    /\ ret[2].volume = Zero

(* C28, as claimed: for positive prices and tvl > 0, the volume returned   *)
(* by optimize_trade_size is > 0 and exceeds neither max_tvl_pct x tvl nor *)
(* the trade size whose constant-product slippage equals target_slippage,  *)
(* so the returned result has passed_slippage_guard = true and             *)
(* dynamic_slippage <= target_slippage; for tvl <= 0 no candidate is       *)
(* evaluated and it returns (0.0, abort result).                           *)
C28_VolumeWithinLimits ==
    Optimized =>
        /\ ~raised
        /\ (PositivePrices /\ RLt(Zero, args.tvl)) => VolumeWithinLimits
        /\ RLe(args.tvl, Zero) => NoCandidate

TargetWithinUnit ==
    /\ RLt(Zero, self.target_slippage) /\ RLt(self.target_slippage, One)
    /\ RLt(Zero, self.max_tvl_pct)

(* C28, amended: for positive prices, tvl > 0 and a calculator with        *)
(* 0 < target_slippage < 1 and max_tvl_pct > 0, the volume returned by     *)
(* optimize_trade_size is > 0 and exceeds neither max_tvl_pct x tvl nor    *)
(* the trade size whose constant-product slippage equals target_slippage,  *)
(* so the returned result has passed_slippage_guard = true and             *)
(* dynamic_slippage <= target_slippage; for tvl <= 0, and for a            *)
(* target_slippage outside (0, 1) or a max_tvl_pct <= 0, no candidate is   *)
(* evaluated and it returns (0.0, abort result).                           *)
C28_VolumeWithinLimitsOfTarget ==
    Optimized =>
        /\ ~raised
        /\ (PositivePrices /\ RLt(Zero, args.tvl) /\ TargetWithinUnit)
              => VolumeWithinLimits
        /\ (RLe(args.tvl, Zero) \/ ~TargetWithinUnit) => NoCandidate

(* the full size for the target slippage is returned: the slippage of the  *)
(* result equals target_slippage, below the max_tvl_pct cap                *)
C28_Witness ==
    /\ Optimized /\ ~raised
    /\ PositivePrices /\ RLt(Zero, args.tvl) /\ TargetWithinUnit
    /\ ret[2].dynamic_slippage = self.target_slippage
    /\ RLt(ret[1], RMul(self.max_tvl_pct, args.tvl))
    /\ ret[2].is_profitable

(* the cap at max_tvl_pct of TVL is the binding limit *)
C28_CappedAtTvlShare ==
    /\ Optimized /\ ~raised
    /\ PositivePrices /\ RLt(Zero, args.tvl) /\ TargetWithinUnit
    /\ ret[1] = RMul(self.max_tvl_pct, args.tvl)
    /\ RLt(ret[2].dynamic_slippage, self.target_slippage)

(* a target_slippage of 0 on a funded pool: no candidate *)
C28_NoCandidateOnFundedPool ==
    /\ Optimized /\ ~raised
    /\ PositivePrices /\ RLt(Zero, args.tvl)
    /\ NoCandidate

C28_NoCandidateOnEmptyPool ==
    /\ Optimized /\ ~raised
    /\ RLt(args.tvl, Zero)
    /\ NoCandidate


----------------------------------------------------------------------------
(* C29: if at least one of the ten candidate volumes evaluated by          *)
(* optimize_trade_size yields a result with is_profitable = true, then the *)
(* result returned by optimize_trade_size is also is_profitable = true.    *)

ProfitableCandidates ==
    {i \in 1..Len(SweepPcts) : RLt(Zero, Candidate(i)) /\ Evaluation(i).is_profitable}

C29_ProfitableCandidateKept ==
    (Optimized /\ ~raised /\ ProfitableCandidates # {}) => ret[2].is_profitable


(* the candidate with the highest net profit misses the minimum margin     *)
(* while a smaller candidate meets the whole checklist                     *)
C29_ProfitableCandidateDiscarded ==
    /\ Optimized /\ ~raised
    /\ 1 \in ProfitableCandidates
    /\ ret[2].abort_reason = "Profit too low"
    /\ RLt(Evaluation(1).net_profit, ret[2].net_profit)
    /\ RLt(ret[2].profit_bps, Evaluation(1).profit_bps)


----------------------------------------------------------------------------
(* C30: when price_sell <= price_buy (with price_buy > 0 and gas cost      *)
(* >= 0), calculate_arbitrage returns a no-opportunity result:             *)
(* loan_volume = optimal_volume = 0, gross_profit = net_profit =           *)
(* flash_loan_cost = profit_bps = 0 and is_profitable = false; and         *)
(* whenever calculate_arbitrage reports is_profitable = true its           *)
(* loan_volume lies in [v_min, v_max].                                     *)

NoOpportunityCall ==
    /\ op = "calculate_arbitrage"
    /\ RLe(args.price_sell, args.price_buy)
    /\ RLt(Zero, args.price_buy)
    /\ RLe(Zero, args.gas_cost_usd)

C30_ProfitableWithinLimits ==
    /\ FlashLoanEvaluated
    /\ ret.is_profitable
    /\ ret.loan_volume = RMul(args.flash_params.c_max, args.flash_params.tvl)
    /\ RLt(Zero, ret.loan_volume)

====
